---- MODULE Spec2Model ----
(***************************************************************************)
(* Model of the spreadsheet codec of backend/app/utils/xlsx.py.            *)
(*                                                                         *)
(* Text is a sequence of one-character strings.  An XML part is a tree     *)
(* whose character data is kept in serialized form (as written in the      *)
(* file); the parser's decoding of character data is XmlText.  An archive  *)
(* is a sequence of members (name, content); a member name is a path, a    *)
(* sequence of atoms that are either the separator "/" or a segment.       *)
(***************************************************************************)
EXTENDS Integers, Sequences, FiniteSets, TLC

VARIABLES
    pc,       \* position of the call under way
    rows,     \* the cell grid handed to build_workbook_from_rows
    data,     \* package bytes handed to extract_rows_from_workbook
    result,   \* what the last call returned or raised
    index,    \* column codec: the 1-based column index
    letters,  \* column codec: the letters _column_letter returned
    frames,   \* concurrent calls: the position and the locals of each call
    db,       \* the tables of the database behind the HTTP routes
    seen      \* what the clients of the HTTP routes were answered so far

vars == <<pc, rows, data, result, index, letters, frames, db, seen>>

\* The state outside the codec, which codec runs leave alone.
api_vars == <<frames, db, seen>>

ApiIdle == frames = <<>> /\ db = <<>> /\ seen = <<>>

(***************************************************************************)
(* Bounds of the model.                                                    *)
(***************************************************************************)
MaxColumn == 16384
MaxRows == 2
MaxCols == 2
MaxSheets == 2
MaxRels == 2
MaxSheetRows == 2
MaxStrings == 2
MaxItems == 2
MaxRuns == 2
MaxCalls == 2
MaxGoals == 2
MaxTransactions == 2
MaxDataRows == 2
MaxSnapshots == 4
MaxNegative == 3
MaxLetters == 2

\* Program constants.
MinPasswordLength == 8
BcryptMaxBytes == 72
DigestBytes == 32

(***************************************************************************)
(* Python values.                                                          *)
(***************************************************************************)
None == <<"None">>
NoAttr == <<"NoAttr">>

Ok(v) == [raised |-> "none", value |-> v]
Raise(e) == [raised |-> e, value |-> <<>>]

Max(a, b) == IF a >= b THEN a ELSE b

UpperLetters ==
    <<"A", "B", "C", "D", "E", "F", "G", "H", "I", "J", "K", "L", "M",
      "N", "O", "P", "Q", "R", "S", "T", "U", "V", "W", "X", "Y", "Z">>

LowerLetters ==
    <<"a", "b", "c", "d", "e", "f", "g", "h", "i", "j", "k", "l", "m",
      "n", "o", "p", "q", "r", "s", "t", "u", "v", "w", "x", "y", "z">>

\* Letters outside ASCII that str.isalpha accepts (a sample: U+00E9, U+00C9,
\* U+00DF and U+017F, written by name).
OtherLetters == {"e-acute", "E-ACUTE", "sharp-s", "long-s"}

DigitChars == <<"0", "1", "2", "3", "4", "5", "6", "7", "8", "9">>

Range(s) == {s[i] : i \in 1..Len(s)}

PosIn(ch, s) == CHOOSE i \in 1..Len(s) : s[i] = ch

\* str.isalpha on one character
IsAlpha(ch) ==
    ch \in Range(UpperLetters) \cup Range(LowerLetters) \cup OtherLetters

\* str.upper on one character whose upper case is one character
UpperChar(ch) ==
    IF ch \in Range(LowerLetters) THEN UpperLetters[PosIn(ch, LowerLetters)]
    ELSE IF ch = "e-acute" THEN "E-ACUTE"
    ELSE IF ch = "long-s" THEN "S"
    ELSE ch

\* str.upper: the upper case of U+00DF is the two characters "SS".
RECURSIVE upper(_)
upper(s) ==
    IF s = <<>> THEN <<>>
    ELSE (IF Head(s) = "sharp-s" THEN <<"S", "S">>
          ELSE <<UpperChar(Head(s))>>) \o upper(Tail(s))

\* str(n) for an integer n >= 0
RECURSIVE str(_)
str(n) ==
    IF n < 10 THEN <<DigitChars[n + 1]>>
    ELSE Append(str(n \div 10), DigitChars[(n % 10) + 1])

(***************************************************************************)
(* Cell reference codec.                                                   *)
(***************************************************************************)
\* The loop of _column_letter: divmod(index - 1, 26), prepend chr(65 + rem).
RECURSIVE column_letter_loop(_, _)
column_letter_loop(idx, res) ==
    IF idx > 0
    THEN column_letter_loop((idx - 1) \div 26,
                            <<UpperLetters[((idx - 1) % 26) + 1]>> \o res)
    ELSE res

\* A digit range of 0..25 instead of 1..26 (ordinary base 26).
column_letter_base26(idx) ==
    LET RECURSIVE loop(_, _)
        loop(i, res) ==
            IF i > 0
            THEN loop(i \div 26, <<UpperLetters[(i % 26) + 1]>> \o res)
            ELSE res
        r == loop(idx, <<>>)
    IN IF r = <<>> THEN <<"A">> ELSE r

_column_letter(idx) ==
    LET r == column_letter_loop(idx, <<>>)
    IN IF r = <<>> THEN <<"A">> ELSE r

\* The loop of _column_index over letters.upper().
RECURSIVE column_index_loop(_, _)
column_index_loop(s, res) ==
    IF s = <<>> THEN res
    ELSE LET char == Head(s)
         IN column_index_loop(
                Tail(s),
                IF char \in Range(UpperLetters)
                THEN res * 26 + PosIn(char, UpperLetters)
                ELSE res)

_column_index(s) == Max(column_index_loop(upper(s), 0), 1)

(***************************************************************************)
(* XML character data.                                                     *)
(***************************************************************************)
MAIN_NS == "http://schemas.openxmlformats.org/spreadsheetml/2006/main"
REL_NS == "http://schemas.openxmlformats.org/officeDocument/2006/relationships"
\* The namespace the template's xl/_rels/workbook.xml.rels part declares.
PKG_REL_NS == "http://schemas.openxmlformats.org/package/2006/relationships"

NoNode == <<"NoNode">>
Malformed == <<"Malformed">>

Amp == <<"&", "a", "m", "p", ";">>
Lt == <<"&", "l", "t", ";">>
Gt == <<"&", "g", "t", ";">>

StartsWith(s, prefix) ==
    /\ Len(s) >= Len(prefix)
    /\ SubSeq(s, 1, Len(prefix)) = prefix

Drop(s, n) == SubSeq(s, n + 1, Len(s))

\* An escape that leaves "&" as it is.
RECURSIVE escape_no_amp(_)
escape_no_amp(s) ==
    IF s = <<>> THEN <<>>
    ELSE (CASE Head(s) = "<" -> Lt
            [] Head(s) = ">" -> Gt
            [] OTHER -> <<Head(s)>>) \o escape_no_amp(Tail(s))

\* xml.sax.saxutils.escape: "&", ">" and "<" replaced by their entities.
RECURSIVE escape(_)
escape(s) ==
    IF s = <<>> THEN <<>>
    ELSE (CASE Head(s) = "&" -> Amp
            [] Head(s) = "<" -> Lt
            [] Head(s) = ">" -> Gt
            [] OTHER -> <<Head(s)>>) \o escape(Tail(s))

\* The parser's decoding of serialized character data: entity references are
\* replaced, a bare "<" or an unknown reference is not well-formed.
RECURSIVE XmlText(_)
XmlText(raw) ==
    IF raw = <<>> THEN <<>>
    ELSE IF Head(raw) = "<" THEN Malformed
    ELSE IF Head(raw) = "&"
    THEN LET n == IF StartsWith(raw, Amp) THEN Len(Amp)
                  ELSE IF StartsWith(raw, Lt) THEN Len(Lt)
                  ELSE IF StartsWith(raw, Gt) THEN Len(Gt)
                  ELSE 0
             ch == IF StartsWith(raw, Amp) THEN "&"
                   ELSE IF StartsWith(raw, Lt) THEN "<"
                   ELSE ">"
             rest == XmlText(Drop(raw, n))
         IN IF n = 0 \/ rest = Malformed THEN Malformed ELSE <<ch>> \o rest
    ELSE LET rest == XmlText(Tail(raw))
         IN IF rest = Malformed THEN Malformed ELSE <<Head(raw)>> \o rest

\* Element.text: None for an element without character data.
ElementText(raw) ==
    LET text == XmlText(raw) IN IF text = <<>> THEN None ELSE text

\* value or ""
OrEmpty(value) == IF value = None THEN <<>> ELSE value

\* The children kept under a field of an element, none without the field.
Field(doc, name) == IF name \in DOMAIN doc THEN doc[name] ELSE <<>>

\* The default namespace the root element declares.
Xmlns(doc) == IF "xmlns" \in DOMAIN doc THEN doc.xmlns ELSE ""

RECURSIVE Concat(_)
Concat(ss) == IF ss = <<>> THEN <<>> ELSE Head(ss) \o Concat(Tail(ss))

RawTextsOfCell(cell) ==
    (IF cell.v = NoNode THEN <<>> ELSE <<cell.v>>) \o cell.is

RawTextsOfSheet(doc) ==
    Concat([i \in 1..Len(Field(doc, "sheetData")) |->
              Concat([j \in 1..Len(doc.sheetData[i].cells) |->
                        RawTextsOfCell(doc.sheetData[i].cells[j])])])

RawTexts(doc) ==
    RawTextsOfSheet(doc)
    \o Concat([i \in 1..Len(Field(doc, "si")) |-> doc.si[i].t])

\* ET.fromstring: the parsed tree, or ParseError for bytes that are not
\* well-formed XML.
fromstring(content) ==
    IF content.kind # "xml" THEN Raise("ParseError")
    ELSE IF \E i \in 1..Len(RawTexts(content)) :
                XmlText(RawTexts(content)[i]) = Malformed
    THEN Raise("ParseError")
    ELSE Ok(content)

(***************************************************************************)
(* Archives.                                                               *)
(***************************************************************************)
SHEET1_PATH == <<"xl", "/", "worksheets", "/", "sheet1.xml">>
WORKBOOK_PATH == <<"xl", "/", "workbook.xml">>
RELS_PATH == <<"xl", "/", "_rels", "/", "workbook.xml.rels">>
SHARED_STRINGS_PATH == <<"xl", "/", "sharedStrings.xml">>

\* ZipFile.namelist
namelist(members) == [i \in 1..Len(members) |-> members[i].name]

HasMember(members, name) == \E i \in 1..Len(members) : members[i].name = name

\* ZipFile.read: the content of the member of that name, KeyError without one.
read(members, name) ==
    IF HasMember(members, name)
    THEN Ok(members[CHOOSE i \in 1..Len(members) :
                        /\ members[i].name = name
                        /\ \A j \in (i + 1)..Len(members) :
                              members[j].name # name].content)
    ELSE Raise("KeyError")

Bytes(of) == [kind |-> "bytes", of |-> of]
OtherXml(root) == [kind |-> "xml", root |-> root]

InlineCell(ref, raw) ==
    [r |-> ref, t |-> "inlineStr", v |-> NoNode, is |-> <<raw>>]

\* The worksheet part of the embedded template (its text runs as one atom each).
TemplateSheet ==
    [kind |-> "xml", root |-> "worksheet", xmlns |-> MAIN_NS,
     dimension |-> <<"A", "1", ":", "C", "3">>,
     sheetData |-> <<
        [r |-> <<"1">>, cells |-> <<
            InlineCell(<<"A", "1">>, <<"reference-date">>),
            InlineCell(<<"B", "1">>, <<"category">>),
            InlineCell(<<"C", "1">>, <<"amount">>)>>],
        [r |-> <<"2">>, cells |-> <<
            InlineCell(<<"A", "2">>, <<"2025-01-31">>),
            InlineCell(<<"B", "2">>, <<"cash">>),
            InlineCell(<<"C", "2">>, <<"1000000">>)>>],
        [r |-> <<"3">>, cells |-> <<
            InlineCell(<<"A", "3">>, <<"2025-01-31">>),
            [r |-> <<"B", "3">>, t |-> "inlineStr", v |-> NoNode, is |-> <<>>],
            InlineCell(<<"C", "3">>, <<"250000">>)>>]>>]

TemplateWorkbook ==
    [kind |-> "xml", root |-> "workbook", xmlns |-> MAIN_NS,
     sheets |-> <<[rid |-> "rId1"]>>]

TemplateRels ==
    [kind |-> "xml", root |-> "Relationships", xmlns |-> PKG_REL_NS,
     rels |-> <<
        [Id |-> "rId1", Target |-> <<"/">> \o SHEET1_PATH],
        [Id |-> "rId2", Target |-> <<"styles.xml">>],
        [Id |-> "rId3", Target |-> <<"theme", "/", "theme1.xml">>]>>]

\* snapshot_template_bytes: the members of the embedded package, in order.
snapshot_template_bytes ==
    [zip |-> TRUE,
     members |-> <<
        [name |-> <<"docProps", "/", "app.xml">>, content |-> OtherXml("Properties")],
        [name |-> <<"docProps", "/", "core.xml">>, content |-> OtherXml("coreProperties")],
        [name |-> <<"xl", "/", "theme", "/", "theme1.xml">>, content |-> OtherXml("theme")],
        [name |-> SHEET1_PATH, content |-> TemplateSheet],
        [name |-> <<"xl", "/", "styles.xml">>, content |-> OtherXml("styleSheet")],
        [name |-> <<"_rels", "/", ".rels">>, content |-> OtherXml("Relationships")],
        [name |-> WORKBOOK_PATH, content |-> TemplateWorkbook],
        [name |-> RELS_PATH, content |-> TemplateRels],
        [name |-> <<"[Content_Types].xml">>, content |-> OtherXml("Types")]>>]

(***************************************************************************)
(* Encode: _render_sheet_xml and build_workbook_from_rows.                 *)
(***************************************************************************)
IsBlank(value) == value = None \/ value = <<>>

\* A writer that numbers the columns by the cells written, not by position.
render_cells_packed(row, r_idx, c_idx) ==
    LET present == SelectSeq(row, LAMBDA value : ~IsBlank(value))
    IN [k \in 1..Len(present) |->
           InlineCell(_column_letter(k) \o str(r_idx), escape(present[k]))]

\* The cells of one row: one inline-string cell per value that is neither
\* None nor "", with reference _column_letter(c_idx) + str(r_idx).
RECURSIVE render_cells(_, _, _)
render_cells(row, r_idx, c_idx) ==
    IF c_idx > Len(row) THEN <<>>
    ELSE (IF IsBlank(row[c_idx]) THEN <<>>
          ELSE <<InlineCell(_column_letter(c_idx) \o str(r_idx),
                            escape(row[c_idx]))>>)
         \o render_cells(row, r_idx, c_idx + 1)

\* A writer that numbers the rows from 0.
render_row_from_zero(row, r_idx) ==
    [r |-> str(r_idx - 1), cells |-> render_cells(row, r_idx, 1)]

render_row(row, r_idx) ==
    [r |-> str(r_idx), cells |-> render_cells(row, r_idx, 1)]

\* The width of the first row taken for the width of the grid.
MaxLen_first_row(grid) == IF grid = <<>> THEN 0 ELSE Len(Head(grid))

RECURSIVE MaxLen(_)
MaxLen(grid) ==
    IF grid = <<>> THEN 0 ELSE Max(Len(Head(grid)), MaxLen(Tail(grid)))

_render_sheet_xml(grid) ==
    LET rows1 == IF grid = <<>> THEN << << <<>> >> >> ELSE grid
        max_col == IF MaxLen(rows1) = 0 THEN 1 ELSE MaxLen(rows1)
    IN [kind |-> "xml", root |-> "worksheet", xmlns |-> MAIN_NS,
        dimension |-> <<"A", "1", ":">> \o _column_letter(max_col)
                         \o str(Len(rows1)),
        sheetData |-> [r_idx \in 1..Len(rows1) |->
                          render_row(rows1[r_idx], r_idx)]]

\* A splice that writes the new sheet and leaves out the members after it.
splice_truncating(members, sheet_xml) ==
    LET k == CHOOSE i \in 1..Len(members) : members[i].name = SHEET1_PATH
    IN [i \in 1..k |->
           IF i = k THEN [name |-> members[i].name, content |-> sheet_xml]
           ELSE members[i]]

\* The splice: every member of the template copied, the worksheet replaced.
splice(members, sheet_xml) ==
    [i \in 1..Len(members) |->
        IF members[i].name = SHEET1_PATH
        THEN [name |-> members[i].name, content |-> sheet_xml]
        ELSE [name |-> members[i].name, content |-> members[i].content]]

build_workbook_from_rows(grid) ==
    [zip |-> TRUE,
     members |-> splice(snapshot_template_bytes.members,
                        _render_sheet_xml(grid))]

(***************************************************************************)
(* Decode.                                                                 *)
(***************************************************************************)
\* Element.findall / find with a tag of namespace ns: the children kept
\* under field name, when the document's default namespace is ns.
findall(doc, ns, name) ==
    IF Xmlns(doc) = ns THEN Field(doc, name) ELSE <<>>

\* str.lstrip("/") on a path
RECURSIVE lstrip_slash(_)
lstrip_slash(path) ==
    IF path # <<>> /\ Head(path) = "/" THEN lstrip_slash(Tail(path)) ELSE path

normalize_target(target) ==
    LET t1 == IF StartsWith(target, <<"/">>) THEN lstrip_slash(target)
              ELSE target
    IN IF StartsWith(t1, <<"xl", "/">>) THEN t1 ELSE <<"xl", "/">> \o t1

\* The loop over the Relationship elements: the first with Id = rel_id.
RECURSIVE first_relationship(_, _)
first_relationship(rels, rel_id) ==
    IF rels = <<>> THEN SHEET1_PATH
    ELSE IF Head(rels).Id = rel_id
    THEN normalize_target(IF Head(rels).Target = NoAttr
                          THEN <<"worksheets", "/", "sheet1.xml">>
                          ELSE Head(rels).Target)
    ELSE first_relationship(Tail(rels), rel_id)

_resolve_first_sheet_path(members) ==
    LET wb_bytes == read(members, WORKBOOK_PATH)
        workbook == fromstring(wb_bytes.value)
        has_sheets == /\ Xmlns(workbook.value) = MAIN_NS
                      /\ "sheets" \in DOMAIN workbook.value
        sheets == workbook.value.sheets
        rel_id == Head(sheets).rid
        rels_bytes == read(members, RELS_PATH)
        rels == fromstring(rels_bytes.value)
    IN IF wb_bytes.raised # "none" THEN Raise(wb_bytes.raised)
       ELSE IF workbook.raised # "none" THEN Raise(workbook.raised)
       ELSE IF ~has_sheets THEN Ok(SHEET1_PATH)
       ELSE IF sheets = <<>> THEN Ok(SHEET1_PATH)
       ELSE IF rel_id = "None" \/ rel_id = "" THEN Ok(SHEET1_PATH)
       ELSE IF rels_bytes.raised # "none" THEN Raise(rels_bytes.raised)
       ELSE IF rels.raised # "none" THEN Raise(rels.raised)
       ELSE Ok(first_relationship(findall(rels.value, REL_NS, "rels"),
                                  rel_id))

\* A reader that takes the first text run of an item only.
JoinTexts_first_run(raws) ==
    IF raws = <<>> THEN <<>> ELSE OrEmpty(ElementText(Head(raws)))

\* The strings of one string item: its text runs joined, None read as "".
JoinTexts(raws) ==
    Concat([i \in 1..Len(raws) |-> OrEmpty(ElementText(raws[i]))])

\* A reader that opens the part without looking for it in the name list.
parse_shared_strings_unguarded(members) ==
    LET part == read(members, SHARED_STRINGS_PATH)
        root == fromstring(part.value)
        items == findall(root.value, MAIN_NS, "si")
    IN IF part.raised # "none" THEN Raise(part.raised)
       ELSE IF root.raised # "none" THEN Raise(root.raised)
       ELSE Ok([i \in 1..Len(items) |-> JoinTexts(items[i].t)])

_parse_shared_strings(members) ==
    IF ~HasMember(members, SHARED_STRINGS_PATH) THEN Ok(<<>>)
    ELSE LET root == fromstring(read(members, SHARED_STRINGS_PATH).value)
             items == findall(root.value, MAIN_NS, "si")
         IN IF root.raised # "none" THEN Raise(root.raised)
            ELSE Ok([i \in 1..Len(items) |-> JoinTexts(items[i].t)])

Whitespace == {" ", "\t", "\n"}

\* str.strip
RECURSIVE lstrip(_)
lstrip(s) ==
    IF s # <<>> /\ Head(s) \in Whitespace THEN lstrip(Tail(s)) ELSE s

RECURSIVE rstrip(_)
rstrip(s) ==
    IF s # <<>> /\ s[Len(s)] \in Whitespace
    THEN rstrip(SubSeq(s, 1, Len(s) - 1)) ELSE s

\* A trim of the leading whitespace only.
strip_leading(s) == lstrip(s)

strip(s) == rstrip(lstrip(s))

NotInt == [ok |-> FALSE, n |-> 0]

RECURSIVE DigitsValue(_, _)
DigitsValue(s, acc) ==
    IF s = <<>> THEN acc
    ELSE DigitsValue(Tail(s), acc * 10 + (PosIn(Head(s), DigitChars) - 1))

\* int(text), ValueError as NotInt: surrounding whitespace and a sign are accepted, then decimal
\* digits only (texts with "_" between digits are not among the inputs).
int(text) ==
    LET s == strip(text)
        signed == s # <<>> /\ Head(s) \in {"+", "-"}
        digits == IF signed THEN Tail(s) ELSE s
    IN IF digits = <<>> \/ ~(Range(digits) \subseteq Range(DigitChars))
       THEN NotInt
       ELSE IF signed /\ Head(s) = "-"
       THEN [ok |-> TRUE, n |-> 0 - DigitsValue(digits, 0)]
       ELSE [ok |-> TRUE, n |-> DigitsValue(digits, 0)]

\* shared_strings[i] of a Python list: a negative i counts from the end;
\* IndexError outside -len..len-1.
list_getitem(list, i) ==
    IF 0 <= i /\ i < Len(list) THEN Ok(list[i + 1])
    ELSE IF i < 0 /\ 0 - i <= Len(list) THEN Ok(list[Len(list) + i + 1])
    ELSE Raise("IndexError")

_extract_cell_value(cell, shared_strings) ==
    IF cell.t = "s"
    THEN IF cell.v = NoNode \/ ElementText(cell.v) = None THEN <<>>
         ELSE LET i == int(ElementText(cell.v))
              IN IF ~i.ok THEN <<>>
                 ELSE LET got == list_getitem(shared_strings, i.n)
                      IN IF got.raised = "none" THEN got.value ELSE <<>>
    ELSE IF cell.t = "inlineStr" THEN JoinTexts(cell.is)
    ELSE IF cell.v # NoNode /\ ElementText(cell.v) # None
         THEN strip(ElementText(cell.v))
         ELSE <<>>

\* "".join(ch for ch in ref if ch.isalpha()) of cell.attrib.get("r", "")
col_letters(cell) ==
    SelectSeq(IF cell.r = NoAttr THEN <<>> ELSE cell.r, IsAlpha)

\* A loop that keeps the first value stored for a column.
RECURSIVE cell_loop_first_wins(_, _, _, _)
cell_loop_first_wins(cells, shared_strings, values, max_col) ==
    IF cells = <<>> THEN [values |-> values, max_col |-> max_col]
    ELSE IF col_letters(Head(cells)) = <<>>
    THEN cell_loop_first_wins(Tail(cells), shared_strings, values, max_col)
    ELSE LET col_idx == _column_index(col_letters(Head(cells)))
             value == _extract_cell_value(Head(cells), shared_strings)
         IN cell_loop_first_wins(Tail(cells), shared_strings,
                      [k \in DOMAIN values \cup {col_idx} |->
                          IF k \in DOMAIN values THEN values[k] ELSE value],
                      Max(max_col, col_idx))

\* The loop over the cells of one row: the values dict and max_col.
RECURSIVE cell_loop(_, _, _, _)
cell_loop(cells, shared_strings, values, max_col) ==
    IF cells = <<>> THEN [values |-> values, max_col |-> max_col]
    ELSE IF col_letters(Head(cells)) = <<>>
    THEN cell_loop(Tail(cells), shared_strings, values, max_col)
    ELSE LET col_idx == _column_index(col_letters(Head(cells)))
             value == _extract_cell_value(Head(cells), shared_strings)
         IN cell_loop(Tail(cells), shared_strings,
                      [k \in DOMAIN values \cup {col_idx} |->
                          IF k = col_idx THEN value ELSE values[k]],
                      Max(max_col, col_idx))

\* row_values of one row element: max_col cells, "" where no cell refers.
row_values(row_element, shared_strings) ==
    LET got == cell_loop(row_element.cells, shared_strings, <<>>, 0)
    IN [k \in 1..got.max_col |->
           IF k \in DOMAIN got.values THEN got.values[k] ELSE <<>>]

\* A reader that pads every row to the widest row of the sheet.
row_loop_rectangular(row_elements, shared_strings) ==
    LET all == [i \in 1..Len(row_elements) |->
                   row_values(row_elements[i], shared_strings)]
        kept == SelectSeq(all, LAMBDA row : row # <<>>)
    IN [i \in 1..Len(kept) |->
           [k \in 1..MaxLen(kept) |->
               IF k <= Len(kept[i]) THEN kept[i][k] ELSE <<>>]]

\* A reader that emits an empty row for a row element without a referenced
\* cell.
row_loop_keep_empty(row_elements, shared_strings) ==
    [i \in 1..Len(row_elements) |->
        row_values(row_elements[i], shared_strings)]

\* The loop over the row elements: a row without a referenced cell
\* (max_col = 0) is left out, the others are appended in document order.
RECURSIVE row_loop(_, _)
row_loop(row_elements, shared_strings) ==
    IF row_elements = <<>> THEN <<>>
    ELSE (IF row_values(Head(row_elements), shared_strings) = <<>> THEN <<>>
          ELSE <<row_values(Head(row_elements), shared_strings)>>)
         \o row_loop(Tail(row_elements), shared_strings)

extract_rows_from_workbook(package) ==
    LET archive == package.members
        sheet_path == _resolve_first_sheet_path(archive)
        sheet_xml == read(archive, sheet_path.value)
        shared_strings == _parse_shared_strings(archive)
        root == fromstring(sheet_xml.value)
    IN IF ~package.zip THEN Raise("BadZipFile")
       ELSE IF sheet_path.raised # "none" THEN Raise(sheet_path.raised)
       ELSE IF sheet_xml.raised # "none" THEN Raise(sheet_xml.raised)
       ELSE IF shared_strings.raised # "none"
       THEN Raise(shared_strings.raised)
       ELSE IF root.raised # "none" THEN Raise(root.raised)
       ELSE Ok(row_loop(findall(root.value, MAIN_NS, "sheetData"),
                        shared_strings.value))

(***************************************************************************)
(* Encode then decode: a grid is built into a package, and the package is  *)
(* read back.                                                              *)
(***************************************************************************)
Pending == [raised |-> "pending", value |-> <<>>]

Special == <<"<", "&", ">">>

\* Strings free of XML-special characters.
PlainValues == {<<>>, <<"a">>, <<"b">>}

\* Absent and empty values, and a string of the XML-special characters.
AnyValues == {None, <<>>, Special}

SeqsUpTo(S, n) == UNION {[1..k -> S] : k \in 0..n}

Grids(V) == SeqsUpTo(SeqsUpTo(V, MaxCols), MaxRows)

Init ==
    /\ pc = "encode"
    /\ rows \in Grids(PlainValues)
    /\ data = [zip |-> FALSE, members |-> <<>>]
    /\ result = Pending
    /\ index = 0
    /\ letters = None
    /\ ApiIdle

BuildWorkbook ==
    /\ pc = "encode"
    /\ data' = build_workbook_from_rows(rows)
    /\ pc' = "decode"
    /\ UNCHANGED <<rows, result, index, letters>>
    /\ UNCHANGED api_vars

ExtractRows ==
    /\ pc = "decode"
    /\ result' = extract_rows_from_workbook(data)
    /\ pc' = "done"
    /\ UNCHANGED <<rows, data, index, letters>>
    /\ UNCHANGED api_vars

Next == BuildWorkbook \/ ExtractRows

Spec == Init /\ [][Next]_vars

InitAnyValue ==
    /\ pc = "encode"
    /\ rows \in Grids(AnyValues)
    /\ data = [zip |-> FALSE, members |-> <<>>]
    /\ result = Pending
    /\ index = 0
    /\ letters = None
    /\ ApiIdle

SpecAnyValue == InitAnyValue /\ [][Next]_vars

IsRectangular(grid) ==
    \A i, j \in 1..Len(grid) : Len(grid[i]) = Len(grid[j])

\* The position of the last cell of a row that is neither None nor "".
LastValue(row) ==
    IF \A c \in 1..Len(row) : IsBlank(row[c]) THEN 0
    ELSE CHOOSE c \in 1..Len(row) :
            /\ ~IsBlank(row[c])
            /\ \A d \in (c + 1)..Len(row) : IsBlank(row[d])

\* A grid without its rows of blank cells, each other row cut after its
\* last value, None read as "".
Compact(grid) ==
    LET cut == [i \in 1..Len(grid) |->
                   [c \in 1..LastValue(grid[i]) |-> OrEmpty(grid[i][c])]]
    IN SelectSeq(cut, LAMBDA row : row # <<>>)

\* C1 as stated: decoding the encoding of a rectangular grid of plain
\* strings (of at least one row and one column) gives the grid back, with
\* the same rows and row lengths.
RoundTripIdentity ==
    (pc = "done" /\ IsRectangular(rows) /\ rows # <<>> /\ rows[1] # <<>>)
        => result = Ok(rows)

\* C1 as amended: decoding the encoding of a rectangular grid of plain
\* strings gives the rows of the grid that hold a non-empty cell, in order,
\* each cut after its last non-empty cell; non-empty cells are unchanged
\* and the empty cells before them are still empty.
RoundTripCompacted ==
    (pc = "done" /\ IsRectangular(rows)) => result = Ok(Compact(rows))

RoundTripWitness ==
    /\ pc = "done"
    /\ rows = << << <<>>, <<"a">> >>, << <<"b">>, <<>> >> >>
    /\ result = Ok(<< << <<>>, <<"a">> >>, << <<"b">> >> >>)

\* The row elements of the first worksheet of the package in data.
SheetRows ==
    LET path == _resolve_first_sheet_path(data.members).value
    IN findall(read(data.members, path).value, MAIN_NS, "sheetData")

\* The largest column index a cell of the row element refers to.
RECURSIVE MaxRef(_)
MaxRef(cells) ==
    IF cells = <<>> THEN 0
    ELSE Max(IF col_letters(Head(cells)) = <<>> THEN 0
             ELSE _column_index(col_letters(Head(cells))),
             MaxRef(Tail(cells)))

ReferencedRows == SelectSeq(SheetRows, LAMBDA row : MaxRef(row.cells) > 0)

KeptUpTo(grid, r) == Cardinality({i \in 1..r : LastValue(grid[i]) > 0})

\* C6: build_workbook_from_rows produces a package for every grid (empty,
\* with empty rows, ragged, with None, "" and XML-special values), the
\* package decodes without error, and every value holding "&", "<" or ">"
\* decodes to the same string at its column.
EncodeNeverFails ==
    /\ pc # "encode" =>
          /\ data.zip
          /\ namelist(data.members) = namelist(snapshot_template_bytes.members)
    /\ pc = "done" =>
          /\ result.raised = "none"
          /\ \A r \in 1..Len(rows) : \A c \in 1..Len(rows[r]) :
                rows[r][c] = Special =>
                    /\ KeptUpTo(rows, r) <= Len(result.value)
                    /\ c <= Len(result.value[KeptUpTo(rows, r)])
                    /\ result.value[KeptUpTo(rows, r)][c] = Special

EncodeNeverFailsWitness ==
    /\ pc = "done"
    /\ rows = << << None, <<>> >>, << <<>>, Special >> >>
    /\ result = Ok(<< << <<>>, Special >> >>)

\* C7: the package build_workbook_from_rows returns has the member names of the template in the
\* template's order; every member but the worksheet part has the content
\* of the template's member; the worksheet part holds the sheet rendered
\* from the grid, and it is the part the decoder resolves as first sheet.
SpliceIsolation ==
    pc = "decode" =>
        /\ namelist(data.members) = namelist(snapshot_template_bytes.members)
        /\ \A i \in 1..Len(data.members) :
              IF data.members[i].name = SHEET1_PATH
              THEN data.members[i].content = _render_sheet_xml(rows)
              ELSE data.members[i].content
                       = snapshot_template_bytes.members[i].content
        /\ _resolve_first_sheet_path(data.members) = Ok(SHEET1_PATH)

SpliceIsolationWitness ==
    /\ pc = "decode"
    /\ rows = << << <<"a">>, <<"b">> >> >>
    /\ read(data.members, SHEET1_PATH).value # TemplateSheet
    /\ read(data.members, WORKBOOK_PATH).value = TemplateWorkbook

(***************************************************************************)
(* The sheet path resolver on archives whose workbook and relationships    *)
(* parts vary.                                                             *)
(***************************************************************************)
Absent == [kind |-> "absent"]

\* The member of that name, or no member for an absent part.
Part(name, content) ==
    IF content.kind = "absent" THEN <<>>
    ELSE <<[name |-> name, content |-> content]>>

SHEET2 == <<"worksheets", "/", "sheet2.xml">>

SheetIds == {"None", "", "rId1", "rId2"}

WorkbookParts ==
    {Absent, Bytes("garbage"),
     [kind |-> "xml", root |-> "workbook", xmlns |-> MAIN_NS]}
    \cup {[kind |-> "xml", root |-> "workbook", xmlns |-> MAIN_NS,
           sheets |-> ss] :
             ss \in SeqsUpTo({[rid |-> x] : x \in SheetIds}, MaxSheets)}

Targets ==
    {NoAttr, <<>>, SHEET2, <<"xl", "/">> \o SHEET2,
     <<"/", "xl", "/">> \o SHEET2, <<"/", "/">> \o SHEET2}

Relationships == {[Id |-> i, Target |-> t] : i \in {"rId1", "rId2"}, t \in Targets}

RelsParts ==
    {Absent, Bytes("garbage")}
    \cup {[kind |-> "xml", root |-> "Relationships", xmlns |-> ns,
           rels |-> rr] :
             ns \in {PKG_REL_NS, REL_NS},
             rr \in SeqsUpTo(Relationships, MaxRels)}

InitResolve ==
    /\ pc = "resolve"
    /\ \E wb \in WorkbookParts, rl \in RelsParts :
          data = [zip |-> TRUE,
                  members |-> Part(WORKBOOK_PATH, wb) \o Part(RELS_PATH, rl)]
    /\ rows = <<>>
    /\ result = Pending
    /\ index = 0
    /\ letters = None
    /\ ApiIdle

ResolveFirstSheetPath ==
    /\ pc = "resolve"
    /\ result' = _resolve_first_sheet_path(data.members)
    /\ pc' = "resolved"
    /\ UNCHANGED <<rows, data, index, letters>>
    /\ UNCHANGED api_vars

NextResolve == ResolveFirstSheetPath

SpecResolve == InitResolve /\ [][NextResolve]_vars

\* The relationship id the first sheet element of xl/workbook.xml declares,
\* "None" without a workbook part, a sheets element, a sheet or the attribute.
DeclaredRelId ==
    LET wb == read(data.members, WORKBOOK_PATH)
    IN IF wb.raised = "none" /\ wb.value.kind = "xml"
          /\ "sheets" \in DOMAIN wb.value /\ wb.value.sheets # <<>>
       THEN Head(wb.value.sheets).rid
       ELSE "None"

\* The Relationship elements of xl/_rels/workbook.xml.rels with that id.
DeclaredRelationships(id) ==
    LET rl == read(data.members, RELS_PATH)
    IN IF rl.raised = "none" /\ rl.value.kind = "xml"
       THEN SelectSeq(rl.value.rels, LAMBDA rel : rel.Id = id)
       ELSE <<>>

\* Every part of the archive in data is well-formed XML.
PartsParse ==
    \A i \in 1..Len(data.members) :
        fromstring(data.members[i].content).raised = "none"

\* C8: on an archive whose parts are well-formed, _resolve_first_sheet_path
\* never raises, and whenever a step of the resolution fails (no workbook part, no sheet declared, no relationship
\* id, no relationships part, no relationship of that id, an empty target)
\* it returns xl/worksheets/sheet1.xml.
ResolverNeverRaises ==
    (pc = "resolved" /\ PartsParse) =>
        /\ result.raised = "none"
        /\ (\/ DeclaredRelId \in {"None", ""}
            \/ DeclaredRelationships(DeclaredRelId) = <<>>
            \/ Head(DeclaredRelationships(DeclaredRelId)).Target = <<>>)
              => result = Ok(SHEET1_PATH)

\* C9: when the first sheet declares relationship id R and the relationships
\* part holds a Relationship element with Id = R and a target T (not empty),
\* the result is
\* T normalized (leading separators stripped, "xl/" prefixed unless already
\* there), not the default path; every path returned starts with "xl/".
ResolvesThroughRelationships ==
    pc = "resolved" =>
        /\ (/\ DeclaredRelId \notin {"None", ""}
            /\ DeclaredRelationships(DeclaredRelId) # <<>>
            /\ Head(DeclaredRelationships(DeclaredRelId)).Target
                  \notin {NoAttr, <<>>})
              => result = Ok(normalize_target(
                     Head(DeclaredRelationships(DeclaredRelId)).Target))
        /\ result.raised = "none" => StartsWith(result.value, <<"xl", "/">>)

(***************************************************************************)
(* Decode of packages that were not built by the encoder.                  *)
(***************************************************************************)
Cell(ref, type, raw) == [r |-> ref, t |-> type, v |-> raw, is |-> <<>>]

CellA == Cell(<<"A", "1">>, "None", <<"p">>)
CellB == Cell(<<"B", "1">>, "None", <<"q">>)

\* Row elements by their cells: none, cells without a column letter in the
\* reference, cells in and out of column order, two cells of one column.
RowKinds ==
    {<<>>,
     <<Cell(NoAttr, "None", <<"x">>)>>,
     <<Cell(<<"7">>, "None", <<"x">>)>>,
     <<CellA>>,
     <<CellB>>,
     <<CellA, CellB>>,
     <<CellB, CellA>>,
     <<CellA, Cell(NoAttr, "None", <<"x">>)>>,
     <<CellA, Cell(<<"a", "2">>, "None", <<"q">>)>>}

\* The declared row numbers: consecutive from 1, or 1, 5, 9, ...
Numberings == {"consecutive", "gapped"}

RowNumber(numbering, i) == IF numbering = "gapped" THEN 4 * i - 3 ELSE i

SheetOf(numbering, kinds) ==
    [kind |-> "xml", root |-> "worksheet", xmlns |-> MAIN_NS,
     dimension |-> <<"A", "1">>,
     sheetData |-> [i \in 1..Len(kinds) |->
                       [r |-> str(RowNumber(numbering, i)),
                        cells |-> kinds[i]]]]

\* A shared-strings part of n string items "s0", "s1", ..., each of two runs.
SharedStrings(n) ==
    [kind |-> "xml", root |-> "sst", xmlns |-> MAIN_NS,
     si |-> [i \in 1..n |-> [t |-> << <<"s">>, str(i - 1) >>]]]

CellTypes == {"None", "s", "inlineStr", "n"}

ValueTexts ==
    {NoNode, <<>>, <<"0">>, <<"1">>, <<"2">>, <<"9">>, <<"-", "1">>,
     <<"-", "9">>, <<"+", "0">>, <<" ", "1", " ">>, <<"x">>,
     <<"1", ".", "5">>, <<" ">>, <<"\t", "x", " ", "y", "\n">>}

OneCellSheet(type, raw) ==
    SheetOf("consecutive",
            << <<[r |-> <<"A", "1">>, t |-> type, v |-> raw,
                  is |-> << <<"i">>, <<>>, <<"j">> >>]>> >>)

\* A parseable worksheet with a gap in the row numbers, a cell of an unknown
\* type and a shared-string cell.
OddSheet ==
    SheetOf("gapped",
            << <<Cell(<<"A", "1">>, "b", <<"1">>)>>,
               <<Cell(<<"A", "5">>, "s", <<"0">>)>> >>)

RelsTo(ns, target) ==
    [kind |-> "xml", root |-> "Relationships", xmlns |-> ns,
     rels |-> <<[Id |-> "rId1", Target |-> target]>>]

Package(wb, rl, sheet, ss) ==
    [zip |-> TRUE,
     members |-> Part(WORKBOOK_PATH, wb) \o Part(RELS_PATH, rl)
                 \o Part(SHEET1_PATH, sheet) \o Part(SHARED_STRINGS_PATH, ss)]

\* Packages whose parts are absent, not XML, or in place.
OddPackages ==
    {[zip |-> FALSE, members |-> <<>>]}
    \cup {Package(wb, rl, sheet, ss) :
            wb \in {Absent, Bytes("garbage"), TemplateWorkbook},
            rl \in {Absent, Bytes("garbage"), TemplateRels,
                    RelsTo(REL_NS, SHEET2)},
            sheet \in {Absent, Bytes("garbage"), OddSheet},
            ss \in {Absent, Bytes("garbage"), SharedStrings(1)}}

\* Packages whose worksheet varies in its row elements.
RowPackages ==
    {Package(TemplateWorkbook, TemplateRels, SheetOf(numbering, kinds), Absent) :
        numbering \in Numberings, kinds \in SeqsUpTo(RowKinds, MaxSheetRows)}

\* Packages of one cell, varying in its type, its value text and the
\* number of shared strings.
CellPackages ==
    {Package(TemplateWorkbook, TemplateRels, OneCellSheet(type, raw),
             SharedStrings(n)) :
        type \in CellTypes, raw \in ValueTexts, n \in 0..MaxStrings}

\* Packages of one cell and no shared-strings part.
NoStringsPackages ==
    {Package(TemplateWorkbook, TemplateRels, OneCellSheet(type, raw), Absent) :
        type \in CellTypes, raw \in ValueTexts}

\* Cell references: letters then digits, and letters after, between or
\* before other characters.
Refs ==
    {<<"C", "7">>, <<"A", "B", "1">>, <<"A", "1", "B">>, <<"b", "2", "b">>,
     <<"$", "A", "$", "1">>, <<"1", "B">>, <<"e-acute", "1">>}

\* Packages of one cell, varying in its reference.
RefPackages ==
    {Package(TemplateWorkbook, TemplateRels,
             SheetOf("consecutive", << <<Cell(ref, "None", <<"x">>)>> >>),
             Absent) : ref \in Refs}

InitDecode ==
    /\ pc = "decode"
    /\ data \in OddPackages \cup RowPackages \cup CellPackages
                \cup NoStringsPackages \cup RefPackages
    /\ rows = <<>>
    /\ result = Pending
    /\ index = 0
    /\ letters = None
    /\ ApiIdle

NextDecode == ExtractRows

SpecDecode == InitDecode /\ [][NextDecode]_vars

\* The cell refers to column c: its reference holds letters, of index c.
RefersTo(cell, c) ==
    col_letters(cell) # <<>> /\ _column_index(col_letters(cell)) = c

\* What a row element holds: at each column up to the largest referred to,
\* the value of the last cell referring to it, "" without one.
ExpectedRow(row_element, shared_strings) ==
    LET cells == row_element.cells
    IN [c \in 1..MaxRef(cells) |->
           IF \E k \in 1..Len(cells) : RefersTo(cells[k], c)
           THEN _extract_cell_value(
                    cells[CHOOSE k \in 1..Len(cells) :
                             /\ RefersTo(cells[k], c)
                             /\ \A m \in (k + 1)..Len(cells) :
                                   ~RefersTo(cells[m], c)],
                    shared_strings)
           ELSE <<>>]

\* C3: the decoded rows are the row elements holding at least one cell whose
\* reference has a column letter, in document order, whatever their declared
\* row numbers (rows declared 1 and 5 give two rows); a row element without
\* such a cell gives no row, so every decoded row has a length of at least 1.
RowCompaction ==
    (pc = "done" /\ result.raised = "none") =>
        LET referenced == ReferencedRows
            shared_strings == _parse_shared_strings(data.members).value
        IN /\ Len(result.value) = Len(referenced)
           /\ \A k \in 1..Len(result.value) :
                 /\ Len(result.value[k]) >= 1
                 /\ result.value[k] = ExpectedRow(referenced[k], shared_strings)

RowCompactionWitness ==
    /\ pc = "done"
    /\ Len(SheetRows) = 2
    /\ SheetRows[1] = [r |-> <<"1">>, cells |-> <<CellB>>]
    /\ SheetRows[2] = [r |-> <<"5">>, cells |-> <<CellA>>]
    /\ result = Ok(<< << <<>>, <<"q">> >>, << <<"p">> >> >>)

\* A package of one row element of one cell, of type "s".
OneSharedStringCell ==
    /\ data.zip
    /\ HasMember(data.members, SHEET1_PATH)
    /\ read(data.members, SHEET1_PATH).value.kind = "xml"
    /\ Len(SheetRows) = 1
    /\ Len(SheetRows[1].cells) = 1
    /\ SheetRows[1].cells[1].t = "s"
    /\ SheetRows[1].cells[1].r = <<"A", "1">>

\* The bounds-checked lookup: entry i when the text is an integer i with
\* 0 <= i < len(shared_strings), "" for any other text or no value node.
CheckedLookup(raw, shared_strings) ==
    IF raw = NoNode \/ XmlText(raw) = <<>> THEN <<>>
    ELSE IF int(XmlText(raw)).ok /\ 0 <= int(XmlText(raw)).n
            /\ int(XmlText(raw)).n < Len(shared_strings)
    THEN shared_strings[int(XmlText(raw)).n + 1]
    ELSE <<>>

\* C4: a cell of type "s" decodes to shared_strings[i] exactly when its
\* value text is an integer i with 0 <= i < len(shared_strings), and to ""
\* for every other text (not an integer, i >= len, i < 0, no value node);
\* the decode does not raise.
SharedStringLookupChecked ==
    (pc = "done" /\ OneSharedStringCell) =>
        result = Ok(<< <<CheckedLookup(
                            SheetRows[1].cells[1].v,
                            _parse_shared_strings(data.members).value)>> >>)

\* The worksheet path the decoder reads, the default when the resolver
\* gives none.
ClaimedSheetPath ==
    LET path == _resolve_first_sheet_path(data.members)
    IN IF path.raised = "none" THEN path.value ELSE SHEET1_PATH

\* C5: on a package holding xl/workbook.xml whose parts are all well-formed
\* XML, extract_rows_from_workbook raises only when the worksheet part is
\* absent from the archive; for every other such package (no shared-strings
\* part, no relationships part, gaps in the row numbers, unknown cell types)
\* it returns a grid.
FatalOnlyForBadPackage ==
    (/\ pc = "done"
     /\ data.zip
     /\ HasMember(data.members, WORKBOOK_PATH)
     /\ PartsParse) =>
        (result.raised # "none"
            <=> ~HasMember(data.members, ClaimedSheetPath))

(***************************************************************************)
(* Column codec runs: letters of an index, then the index of the letters.  *)
(***************************************************************************)
InitColumn ==
    /\ pc = "column"
    /\ index \in 1..MaxColumn
    /\ letters = None
    /\ rows = <<>>
    /\ data = [zip |-> FALSE, members |-> <<>>]
    /\ result = Pending
    /\ ApiIdle

ColumnLetter ==
    /\ pc = "column"
    /\ letters' = _column_letter(index)
    /\ pc' = "letters"
    /\ UNCHANGED <<rows, data, result, index>>
    /\ UNCHANGED api_vars

ColumnIndex ==
    /\ pc = "letters"
    /\ result' = Ok(_column_index(letters))
    /\ pc' = "indexed"
    /\ UNCHANGED <<rows, data, index, letters>>
    /\ UNCHANGED api_vars

NextColumn == ColumnLetter \/ ColumnIndex

SpecColumn == InitColumn /\ [][NextColumn]_vars

\* Shortlex order on letter strings: shorter first, then alphabetical.
RECURSIVE LexLess(_, _)
LexLess(a, b) ==
    /\ a # <<>>
    /\ \/ PosIn(Head(a), UpperLetters) < PosIn(Head(b), UpperLetters)
       \/ /\ Head(a) = Head(b)
          /\ LexLess(Tail(a), Tail(b))

ShortLexLess(a, b) ==
    \/ Len(a) < Len(b)
    \/ Len(a) = Len(b) /\ LexLess(a, b)

\* C10: for every n in 1..16384, _column_index(_column_letter(n)) = n; the
\* letters are all in A..Z, and _column_letter is injective on the range: it
\* is strictly increasing in shortlex order from each n to n + 1.
ColumnCodecBijection ==
    /\ pc # "column" =>
          /\ Len(letters) >= 1
          /\ Range(letters) \subseteq Range(UpperLetters)
          /\ index < MaxColumn =>
                ShortLexLess(letters, _column_letter(index + 1))
    /\ pc = "indexed" => result = Ok(index)

ColumnCodecWitness ==
    /\ pc = "indexed"
    /\ index = 703
    /\ letters = <<"A", "A", "A">>
    /\ result = Ok(703)

(***************************************************************************)
(* Shared-string parts: the string items and their text runs vary.         *)
(***************************************************************************)
\* Text runs as serialized: an empty run, a letter, an entity reference.
TextRuns == {<<>>, <<"H">>, Amp}

StringItems == {[t |-> runs] : runs \in SeqsUpTo(TextRuns, MaxRuns)}

SharedStringsParts ==
    {Absent}
    \cup {[kind |-> "xml", root |-> "sst", xmlns |-> MAIN_NS, si |-> items] :
             items \in SeqsUpTo(StringItems, MaxItems)}

InitStrings ==
    /\ pc = "parse"
    /\ \E ss \in SharedStringsParts :
          data = [zip |-> TRUE, members |-> Part(SHARED_STRINGS_PATH, ss)]
    /\ rows = <<>>
    /\ result = Pending
    /\ index = 0
    /\ letters = None
    /\ ApiIdle

ParseSharedStrings ==
    /\ pc = "parse"
    /\ result' = _parse_shared_strings(data.members)
    /\ pc' = "parsed"
    /\ UNCHANGED <<rows, data, index, letters>>
    /\ UNCHANGED api_vars

NextStrings == ParseSharedStrings

SpecStrings == InitStrings /\ [][NextStrings]_vars

\* The number of characters of the runs before run j of an item.
RECURSIVE RunOffset(_, _)
RunOffset(runs, j) ==
    IF j <= 1 THEN 0
    ELSE RunOffset(runs, j - 1) + Len(XmlText(runs[j - 1]))

\* C11: _parse_shared_strings returns one entry per string item, in document
\* order, and each entry is its item's text runs one after the other with
\* nothing between them: run j of the item is found, whole, right after the
\* characters of the runs before it, and an empty run adds no character.
StringItemsConcatenated ==
    (pc = "parsed" /\ HasMember(data.members, SHARED_STRINGS_PATH)) =>
        LET items == read(data.members, SHARED_STRINGS_PATH).value.si
        IN /\ result.raised = "none"
           /\ Len(result.value) = Len(items)
           /\ \A k \in 1..Len(items) :
                 LET runs == items[k].t
                     entry == result.value[k]
                 IN /\ Len(entry) = RunOffset(runs, Len(runs) + 1)
                    /\ \A j \in 1..Len(runs) :
                          SubSeq(entry, RunOffset(runs, j) + 1,
                                 RunOffset(runs, j + 1)) = XmlText(runs[j])

StringItemsConcatenatedWitness ==
    /\ pc = "parsed"
    /\ HasMember(data.members, SHARED_STRINGS_PATH)
    /\ read(data.members, SHARED_STRINGS_PATH).value.si
          = << [t |-> << <<"H">>, Amp >>], [t |-> << <<>>, <<"H">> >>] >>
    /\ result = Ok(<< <<"H", "&">>, <<"H">> >>)

\* A package of one row element of one cell, of a type other than "s" and
\* "inlineStr" or of no type.
OneUntypedCell ==
    /\ data.zip
    /\ HasMember(data.members, SHEET1_PATH)
    /\ read(data.members, SHEET1_PATH).value.kind = "xml"
    /\ Len(SheetRows) = 1
    /\ Len(SheetRows[1].cells) = 1
    /\ SheetRows[1].cells[1].t \notin {"s", "inlineStr"}
    /\ SheetRows[1].cells[1].r = <<"A", "1">>

\* The text of the value node of the cell, "" without a value node.
ValueText ==
    IF SheetRows[1].cells[1].v = NoNode THEN <<>>
    ELSE XmlText(SheetRows[1].cells[1].v)

\* C12 as claimed: an untyped cell decodes to the text of its value node
\* character for character, leading and trailing whitespace kept, and to ""
\* without a value node.
UntypedValueVerbatim ==
    (pc = "done" /\ OneUntypedCell) => result = Ok(<< <<ValueText>> >>)

\* C12: an untyped cell decodes to the text of its value node without its
\* leading and trailing whitespace and otherwise character for character
\* (no numeric reinterpretation, inner whitespace kept): the text is some
\* whitespace, then the decoded value, then some whitespace, and the decoded
\* value neither starts nor ends with whitespace; "" without a value node.
UntypedValueTrimmed ==
    (pc = "done" /\ OneUntypedCell) =>
        /\ result.raised = "none"
        /\ Len(result.value) = 1 /\ Len(result.value[1]) = 1
        /\ LET value == result.value[1][1]
               text == ValueText
           IN /\ \E i \in 0..Len(text) :
                    /\ i + Len(value) <= Len(text)
                    /\ value = SubSeq(text, i + 1, i + Len(value))
                    /\ \A k \in (1..i) \cup ((i + Len(value) + 1)..Len(text)) :
                          text[k] \in Whitespace
              /\ value # <<>> =>
                    /\ value[1] \notin Whitespace
                    /\ value[Len(value)] \notin Whitespace

UntypedValueTrimmedWitness ==
    /\ pc = "done"
    /\ OneUntypedCell
    /\ SheetRows[1].cells[1].t = "None"
    /\ SheetRows[1].cells[1].v = <<"\t", "x", " ", "y", "\n">>
    /\ result = Ok(<< << <<"x", " ", "y">> >> >>)

\* C18: each decoded row is as long as the largest column index a cell of
\* its row element refers to; the value of a cell referring to column k is
\* at position k (1-based) unless a later cell of the row refers to k too,
\* in which case the later cell's value is there; a position no cell refers
\* to holds "".
CellPlacement ==
    (pc = "done" /\ result.raised = "none") =>
        LET referenced == ReferencedRows
            shared_strings == _parse_shared_strings(data.members).value
        IN \A i \in 1..Len(referenced) :
              LET cells == referenced[i].cells
                  row == result.value[i]
                  Col(j) == _column_index(col_letters(cells[j]))
                  Refers(j) == col_letters(cells[j]) # <<>>
              IN /\ \A j \in 1..Len(cells) : Refers(j) => Col(j) <= Len(row)
                 /\ \E j \in 1..Len(cells) : Refers(j) /\ Col(j) = Len(row)
                 /\ \A j \in 1..Len(cells) :
                       (/\ Refers(j)
                        /\ \A m \in (j + 1)..Len(cells) :
                              ~(Refers(m) /\ Col(m) = Col(j)))
                       => row[Col(j)]
                             = _extract_cell_value(cells[j], shared_strings)
                 /\ \A k \in 1..Len(row) :
                       (\A j \in 1..Len(cells) : ~(Refers(j) /\ Col(j) = k))
                       => row[k] = <<>>

\* Two cells of one row refer to column A and the later one is decoded; a
\* cell of column B alone leaves position 1 empty.
CellPlacementWitness ==
    /\ pc = "done"
    /\ Len(SheetRows) = 2
    /\ SheetRows[1].cells = <<CellA, Cell(<<"a", "2">>, "None", <<"q">>)>>
    /\ SheetRows[2].cells = <<CellB>>
    /\ result = Ok(<< << <<"q">> >>, << <<>>, <<"q">> >> >>)

\* The package with a shared-strings part of MaxStrings items added.
WithStrings(package) ==
    [package EXCEPT !.members =
        @ \o Part(SHARED_STRINGS_PATH, SharedStrings(MaxStrings))]

\* The last cell of the row element that refers to column k.
LastReferring(cells, k) ==
    cells[CHOOSE j \in 1..Len(cells) :
             /\ RefersTo(cells[j], k)
             /\ \A m \in (j + 1)..Len(cells) : ~RefersTo(cells[m], k)]

\* C19: for a package without xl/sharedStrings.xml that decodes once the
\* part is added, _parse_shared_strings returns the empty sequence and the
\* decode returns a grid of the same shape as with the part, in which every
\* cell of type "s" is "" and every other cell is what it is with the part.
NoSharedStringsPart ==
    (/\ pc = "done"
     /\ data.zip
     /\ ~HasMember(data.members, SHARED_STRINGS_PATH)
     /\ extract_rows_from_workbook(WithStrings(data)).raised = "none") =>
        /\ _parse_shared_strings(data.members) = Ok(<<>>)
        /\ result.raised = "none"
        /\ LET with == extract_rows_from_workbook(WithStrings(data)).value
               referenced == ReferencedRows
           IN /\ Len(result.value) = Len(with)
              /\ \A i \in 1..Len(with) :
                    /\ Len(result.value[i]) = Len(with[i])
                    /\ \A k \in 1..Len(with[i]) :
                          IF /\ \E j \in 1..Len(referenced[i].cells) :
                                   RefersTo(referenced[i].cells[j], k)
                             /\ LastReferring(referenced[i].cells, k).t = "s"
                          THEN result.value[i][k] = <<>>
                          ELSE result.value[i][k] = with[i][k]

\* A cell of type "s" and index 0 decodes to "" without the part, and to
\* the first shared string with it.
NoSharedStringsPartWitness ==
    /\ pc = "done"
    /\ OneSharedStringCell
    /\ ~HasMember(data.members, SHARED_STRINGS_PATH)
    /\ SheetRows[1].cells[1].v = <<"0">>
    /\ extract_rows_from_workbook(WithStrings(data))
          = Ok(<< << <<"s", "0">> >> >>)
    /\ result = Ok(<< << <<>> >> >>)

\* The leading alphabetic run of a reference.
RECURSIVE LeadingLetters(_)
LeadingLetters(ref) ==
    IF ref = <<>> \/ ~IsAlpha(Head(ref)) THEN <<>>
    ELSE <<Head(ref)>> \o LeadingLetters(Tail(ref))

\* C20: the column the decoder assigns to a cell is _column_index of the
\* leading run of letters of its reference ("C7" gives 3), letters after the
\* first other character changing nothing: a row element of one cell whose
\* reference starts with a letter decodes to one row of that length.
LeadingLettersOnly ==
    (/\ pc = "done"
     /\ data.zip
     /\ HasMember(data.members, SHEET1_PATH)
     /\ read(data.members, SHEET1_PATH).value.kind = "xml"
     /\ Len(SheetRows) = 1
     /\ Len(SheetRows[1].cells) = 1
     /\ SheetRows[1].cells[1].r # NoAttr
     /\ LeadingLetters(SheetRows[1].cells[1].r) # <<>>) =>
        /\ result.raised = "none"
        /\ Len(result.value) = 1
        /\ Len(result.value[1])
              = _column_index(LeadingLetters(SheetRows[1].cells[1].r))

(***************************************************************************)
(* Concurrent calls.  Each call of build_workbook_from_rows,               *)
(* extract_rows_from_workbook or download_snapshot_template runs one       *)
(* statement at a time, in any interleaving with the other calls; what a   *)
(* statement assigns is bound in the locals of its call.                   *)
(***************************************************************************)
Bind(namespace, name, value) ==
    [k \in DOMAIN namespace \cup {name} |->
        IF k = name THEN value ELSE namespace[k]]

\* An assignment that binds the name at module level, for every call.
store_global(fs, c, name, value) ==
    [d \in DOMAIN fs |-> [fs[d] EXCEPT !.locals = Bind(@, name, value)]]

\* An assignment to a local variable of call c.
store(fs, c, name, value) ==
    [fs EXCEPT ![c].locals = Bind(@, name, value)]

goto(fs, c, label) == [fs EXCEPT ![c].pc = label]

return(fs, c, value) == [fs EXCEPT ![c].pc = "done", ![c].result = value]

\* io.BytesIO: the bytes and the read position, counted in archive members.
BytesIO(bytes) == [bytes |-> bytes, pos |-> 0]

\* A seek to the end of the buffer (whence = 2).
seek_end(buffer, offset) ==
    [buffer EXCEPT !.pos = Len(buffer.bytes.members) + offset]

\* buffer.seek(offset)
seek(buffer, offset) == [buffer EXCEPT !.pos = offset]

\* What a reader of the buffer gets: the bytes from the position on, which
\* are a zip archive only when nothing is left out.
read_buffer(buffer) ==
    IF buffer.pos = 0 THEN buffer.bytes
    ELSE [zip |-> FALSE, members |-> Drop(buffer.bytes.members, buffer.pos)]

\* One statement of build_workbook_from_rows in call c.
build_step(fs, c) ==
    LET f == fs[c]
    IN CASE f.pc = "base" ->
              goto(store(fs, c, "base", snapshot_template_bytes),
                   c, "sheet_xml")
         [] f.pc = "sheet_xml" ->
              goto(store(fs, c, "sheet_xml", _render_sheet_xml(f.rows)),
                   c, "output")
         [] f.pc = "output" ->
              goto(store(fs, c, "output",
                         [zip |-> TRUE,
                          members |-> splice(f.locals.base.members,
                                             f.locals.sheet_xml)]),
                   c, "return")
         [] f.pc = "return" -> return(fs, c, Ok(f.locals.output))

\* One statement of extract_rows_from_workbook in call c; a statement that
\* raises ends the call.
extract_step(fs, c) ==
    LET f == fs[c]
        bind(name, got, label) ==
            IF got.raised # "none" THEN return(fs, c, Raise(got.raised))
            ELSE goto(store(fs, c, name, got.value), c, label)
    IN CASE f.pc = "archive" ->
              IF ~f.data.zip THEN return(fs, c, Raise("BadZipFile"))
              ELSE goto(store(fs, c, "archive", f.data.members),
                        c, "sheet_path")
         [] f.pc = "sheet_path" ->
              bind("sheet_path", _resolve_first_sheet_path(f.locals.archive),
                   "sheet_xml")
         [] f.pc = "sheet_xml" ->
              bind("sheet_xml", read(f.locals.archive, f.locals.sheet_path),
                   "shared_strings")
         [] f.pc = "shared_strings" ->
              bind("shared_strings", _parse_shared_strings(f.locals.archive),
                   "root")
         [] f.pc = "root" ->
              bind("root", fromstring(f.locals.sheet_xml), "rows")
         [] f.pc = "rows" ->
              return(fs, c,
                     Ok(row_loop(findall(f.locals.root, MAIN_NS, "sheetData"),
                                 f.locals.shared_strings)))

\* One statement of download_snapshot_template in call c.
download_step(fs, c) ==
    LET f == fs[c]
    IN CASE f.pc = "buffer" ->
              goto(store(fs, c, "buffer", BytesIO(snapshot_template_bytes)),
                   c, "seek")
         [] f.pc = "seek" ->
              goto(store(fs, c, "buffer", seek(f.locals.buffer, 0)),
                   c, "respond")
         [] f.pc = "respond" ->
              return(fs, c, Ok([status |-> 200,
                                body |-> read_buffer(f.locals.buffer)]))

\* A call not yet started: its arguments (rows of an encode call, data of a
\* decode call), its first statement, no local bound.
Call(op, rows_arg, data_arg, start) ==
    [op |-> op, rows |-> rows_arg, data |-> data_arg, pc |-> start,
     locals |-> <<>>, result |-> Pending]

NoData == [zip |-> FALSE, members |-> <<>>]

BuildArgs == {<<>>, << << <<"a">> >> >>, << << <<"b">>, <<>> >> >>}

ExtractArgs ==
    {build_workbook_from_rows(<< << <<"a">> >> >>),
     Package(TemplateWorkbook, TemplateRels, OddSheet, SharedStrings(1)),
     [zip |-> FALSE, members |-> <<>>]}

Calls ==
    {Call("build", arg, NoData, "base") : arg \in BuildArgs}
    \cup {Call("extract", <<>>, arg, "archive") : arg \in ExtractArgs}
    \cup {Call("download", <<>>, NoData, "buffer")}

InitCalls ==
    /\ pc = "calls"
    /\ frames \in [1..MaxCalls -> Calls]
    /\ rows = <<>>
    /\ data = [zip |-> FALSE, members |-> <<>>]
    /\ result = Pending
    /\ index = 0
    /\ letters = None
    /\ db = <<>>
    /\ seen = <<>>

BuildStep(c) ==
    /\ frames[c].op = "build" /\ frames[c].pc # "done"
    /\ frames' = build_step(frames, c)
    /\ UNCHANGED <<pc, rows, data, result, index, letters, db, seen>>

ExtractStep(c) ==
    /\ frames[c].op = "extract" /\ frames[c].pc # "done"
    /\ frames' = extract_step(frames, c)
    /\ UNCHANGED <<pc, rows, data, result, index, letters, db, seen>>

DownloadStep(c) ==
    /\ frames[c].op = "download" /\ frames[c].pc # "done"
    /\ frames' = download_step(frames, c)
    /\ UNCHANGED <<pc, rows, data, result, index, letters, db, seen>>

NextCalls ==
    \E c \in DOMAIN frames : BuildStep(c) \/ ExtractStep(c) \/ DownloadStep(c)

SpecCalls == InitCalls /\ [][NextCalls]_vars

\* What the call returns when it runs alone on its argument.
Alone(f) ==
    IF f.op = "build" THEN Ok(build_workbook_from_rows(f.rows))
    ELSE extract_rows_from_workbook(f.data)

\* C16: whatever the interleaving of the calls, every finished encode or
\* decode call has returned what it returns alone on its argument, and the
\* template bytes an encode call works on are the embedded template's.
CallIndependence ==
    \A c \in DOMAIN frames :
        /\ (frames[c].op \in {"build", "extract"} /\ frames[c].pc = "done")
              => frames[c].result = Alone(frames[c])
        /\ (frames[c].op = "build" /\ "base" \in DOMAIN frames[c].locals)
              => frames[c].locals.base = snapshot_template_bytes

\* A decode call has run from its first statement to its return while an
\* encode call was between two of its statements, its sheet XML rendered
\* and not yet spliced.
CallIndependenceWitness ==
    /\ pc = "calls"
    /\ frames[1].op = "build" /\ frames[1].rows = << << <<"b">>, <<>> >> >>
    /\ frames[1].pc = "output"
    /\ frames[2].op = "extract" /\ frames[2].data.zip
    /\ frames[2].pc = "done"
    /\ frames[2].result = Ok(<< << <<"a">> >> >>)

\* C17: every template download that has finished answered 200 with the
\* bytes of the embedded template, whatever encode, decode or download calls
\* ran before or meanwhile, so any two downloads served the same bytes.
TemplateFidelity ==
    \A c \in DOMAIN frames :
        (frames[c].op = "download" /\ frames[c].pc = "done") =>
            /\ frames[c].result
                  = Ok([status |-> 200, body |-> snapshot_template_bytes])
            /\ \A d \in DOMAIN frames :
                  (frames[d].op = "download" /\ frames[d].pc = "done")
                  => frames[d].result = frames[c].result

\* A download has finished after an encode call finished.
TemplateFidelityWitness ==
    /\ pc = "calls"
    /\ frames[1].op = "build" /\ frames[1].pc = "done"
    /\ frames[2].op = "download" /\ frames[2].pc = "done"
    /\ frames[2].result.value.body = snapshot_template_bytes

(***************************************************************************)
(* The HTTP routes.  db holds one set of rows per table of models.py; a    *)
(* handler is an operator from the database and the request to the new     *)
(* database and the response.                                              *)
(***************************************************************************)
EmptyDb ==
    [user |-> {}, goal |-> {}, goal_member |-> {}, transaction |-> {},
     fund_category |-> {}, fund_snapshot |-> {}]

SetMax(S) == CHOOSE x \in S : \A y \in S : y <= x

\* The primary key the database gives a new row (SQLite rowid: one more
\* than the largest id of the table).
NextId(table) ==
    IF table = {} THEN 1 ELSE SetMax({row.id : row \in table}) + 1

Response(database, status, body) ==
    [db |-> database, status |-> status, body |-> body]

(***************************************************************************)
(* security.py: password hashes and access tokens.                         *)
(***************************************************************************)
HASH_PREFIX == "bcrypt_sha256$"

Repeat(ch, n) == [i \in 1..n |-> ch]

\* str.encode("utf-8") of a text of ASCII characters: one byte each.
encode_utf8(text) == [kind |-> "raw", of |-> text]

\* sha256(...).digest(): 32 bytes that stand for the hashed bytes (distinct
\* inputs have distinct digests).
sha256(bytes) == [kind |-> "digest", of |-> bytes.of]

ByteLen(bytes) == IF bytes.kind = "digest" THEN DigestBytes ELSE Len(bytes.of)

\* A derivation that hands the encoded password to bcrypt as it is.
derive_password_bytes_raw(password) == encode_utf8(password)

_derive_password_bytes(password) == sha256(encode_utf8(password))

\* bcrypt works on the first 72 bytes of its input.
bcrypt_hashpw(bytes, salt) ==
    [salt |-> salt,
     key |-> IF ByteLen(bytes) > BcryptMaxBytes
             THEN [bytes EXCEPT !.of = SubSeq(@, 1, BcryptMaxBytes)]
             ELSE bytes]

bcrypt_checkpw(bytes, hashed) == bcrypt_hashpw(bytes, hashed.salt) = hashed

\* get_password_hash, with the salt bcrypt.gensalt() drew.
get_password_hash(password, salt) ==
    [prefix |-> HASH_PREFIX,
     hashed |-> bcrypt_hashpw(_derive_password_bytes(password), salt)]

verify_password(plain_password, hashed_password) ==
    IF hashed_password.prefix = HASH_PREFIX
    THEN bcrypt_checkpw(_derive_password_bytes(plain_password),
                        hashed_password.hashed)
    ELSE bcrypt_checkpw(encode_utf8(plain_password), hashed_password.hashed)

SECRET_KEY == "dev-secret-key"

\* create_access_token: a token signed with the secret key (its expiry is
\* not modelled: requests are made while the token is valid).
create_access_token(sub) == [sub |-> sub, key |-> SECRET_KEY]

\* A token signed with another key.
ForgedToken == [sub |-> <<"1">>, key |-> "other"]

\* get_current_user: the user row of the token's subject, or the 401.
get_current_user(database, token) ==
    IF token.key # SECRET_KEY THEN [status |-> 401, user |-> <<>>]
    ELSE LET found == {u \in database.user : u.id = int(token.sub).n}
         IN IF found = {} THEN [status |-> 401, user |-> <<>>]
            ELSE [status |-> 200, user |-> CHOOSE u \in found : TRUE]

(***************************************************************************)
(* schemas.py: validation of the payloads.                                 *)
(***************************************************************************)
\* str.lower on one character
LowerChar(ch) ==
    IF ch \in Range(UpperLetters) THEN LowerLetters[PosIn(ch, UpperLetters)]
    ELSE ch

IsEmail(text) == Cardinality({i \in 1..Len(text) : text[i] = "@"}) = 1

\* EmailStr: the validated address, normalized (the domain in lower case).
EmailStr(text) ==
    LET at == CHOOSE i \in 1..Len(text) : text[i] = "@"
    IN [i \in 1..Len(text) |-> IF i > at THEN LowerChar(text[i]) ELSE text[i]]

(***************************************************************************)
(* auth.py and users.py.                                                   *)
(***************************************************************************)
UserRead(user) == [id |-> user.id, email |-> user.email, name |-> user.name]

signup(database, payload, salt) ==
    IF ~IsEmail(payload.email) \/ Len(payload.password) < MinPasswordLength
    THEN Response(database, 422, <<>>)
    ELSE IF \E u \in database.user : u.email = EmailStr(payload.email)
    THEN Response(database, 400, <<>>)
    ELSE LET user == [id |-> NextId(database.user),
                      email |-> EmailStr(payload.email),
                      name |-> payload.name,
                      password_hash |->
                          get_password_hash(payload.password, salt)]
         IN Response([database EXCEPT !.user = @ \cup {user}], 201,
                     UserRead(user))

login(database, form_data) ==
    LET found == {u \in database.user : u.email = form_data.username}
    IN IF found = {} THEN Response(database, 401, <<>>)
       ELSE LET user == CHOOSE u \in found : TRUE
            IN IF ~verify_password(form_data.password, user.password_hash)
               THEN Response(database, 401, <<>>)
               ELSE Response(database, 200,
                             create_access_token(str(user.id)))

read_me(database, token) ==
    LET current == get_current_user(database, token)
    IN IF current.status # 200 THEN Response(database, current.status, <<>>)
       ELSE Response(database, 200, UserRead(current.user))

change_password(database, token, payload, salt) ==
    LET current == get_current_user(database, token)
        user == current.user
    IN IF current.status # 200 THEN Response(database, current.status, <<>>)
       ELSE IF Len(payload.new_password) < MinPasswordLength
       THEN Response(database, 422, <<>>)
       ELSE IF ~verify_password(payload.current_password, user.password_hash)
       THEN Response(database, 400, <<>>)
       ELSE Response(
                [database EXCEPT !.user =
                    (@ \ {user})
                    \cup {[user EXCEPT !.password_hash =
                               get_password_hash(payload.new_password, salt)]}],
                204, <<>>)

(***************************************************************************)
(* Signup, login, change of password and read of the own account, in any   *)
(* order.  seen keeps what the answers told: for every account a signup    *)
(* created its id, its address as the answer gives it, and the password    *)
(* last set for it; for every token a login issued, the account whose      *)
(* address logged in.                                                      *)
(***************************************************************************)
Address(local, domain) == <<local, "@">> \o domain

Emails ==
    {Address("a", <<"x", ".", "c">>), Address("a", <<"X", ".", "C">>),
     Address("b", <<"x", ".", "c">>), <<"a">>}

\* Passwords of 7, 8 and 73 characters; the two of 73 share their first 72.
Passwords ==
    {Repeat("p", MinPasswordLength - 1),
     Repeat("p", MinPasswordLength),
     Repeat("p", MinPasswordLength - 1) \o <<"q">>,
     Repeat("p", BcryptMaxBytes) \o <<"x">>,
     Repeat("p", BcryptMaxBytes) \o <<"y">>}

\* The passwords the schemas accept.
ValidPasswords == {p \in Passwords : Len(p) >= MinPasswordLength}

Salts == {"salt1"}

NoResponse == [op |-> "none"]

InitAuth ==
    /\ pc = "api"
    /\ db = EmptyDb
    /\ seen = [accounts |-> {}, tokens |-> {}]
    /\ result = NoResponse
    /\ frames = <<>>
    /\ rows = <<>>
    /\ data = [zip |-> FALSE, members |-> <<>>]
    /\ index = 0
    /\ letters = None

Signup ==
    \E email \in Emails, password \in Passwords, salt \in Salts :
        LET r == signup(db, [email |-> email, name |-> "name",
                             password |-> password], salt)
        IN /\ db' = r.db
           /\ result' = [op |-> "signup", email |-> email,
                         password |-> password, status |-> r.status,
                         body |-> r.body]
           /\ seen' = IF r.status = 201
                      THEN [seen EXCEPT !.accounts =
                               @ \cup {[id |-> r.body.id,
                                        email |-> r.body.email,
                                        password |-> password,
                                        set_by |-> "signup"]}]
                      ELSE seen
           /\ UNCHANGED <<pc, rows, data, index, letters, frames>>

Login ==
    \E email \in Emails, password \in ValidPasswords :
        LET r == login(db, [username |-> email, password |-> password])
        IN /\ db' = r.db
           /\ result' = [op |-> "login", email |-> email,
                         password |-> password, status |-> r.status,
                         body |-> r.body]
           /\ seen' = IF r.status = 200
                      THEN [seen EXCEPT !.tokens =
                               @ \cup {[token |-> r.body, id |-> a.id] :
                                       a \in {b \in seen.accounts :
                                                b.email = email}}]
                      ELSE seen
           /\ UNCHANGED <<pc, rows, data, index, letters, frames>>

Tokens == {t.token : t \in seen.tokens} \cup {ForgedToken}

\* The accounts whose logins issued the token.
IssuedFor(token) == {t.id : t \in {u \in seen.tokens : u.token = token}}

ChangePassword ==
    \E token \in Tokens, current \in ValidPasswords, new \in Passwords,
       salt \in Salts :
        LET r == change_password(db, token,
                                 [current_password |-> current,
                                  new_password |-> new], salt)
        IN /\ db' = r.db
           /\ result' = [op |-> "change_password", token |-> token,
                         password |-> new, status |-> r.status,
                         body |-> r.body]
           /\ seen' = IF r.status = 204
                      THEN [seen EXCEPT !.accounts =
                               {IF a.id \in IssuedFor(token)
                                THEN [a EXCEPT !.password = new,
                                               !.set_by = "change_password"]
                                ELSE a : a \in @}]
                      ELSE seen
           /\ UNCHANGED <<pc, rows, data, index, letters, frames>>

ReadMe ==
    \E token \in Tokens :
        LET r == read_me(db, token)
        IN /\ db' = r.db
           /\ result' = [op |-> "read_me", token |-> token,
                         status |-> r.status, body |-> r.body]
           /\ UNCHANGED <<pc, rows, data, index, letters, frames, seen>>

NextAuth == Signup \/ Login \/ ChangePassword \/ ReadMe

SpecAuth == InitAuth /\ [][NextAuth]_vars

\* C14: a login is answered 200 with a token exactly when an account with
\* that address exists and the password given is the one most recently set
\* for it (at signup, or by an accepted change of password), also for
\* passwords of more than 72 characters; a token a login issued reads the
\* account that logged in.
CredentialLifecycle ==
    /\ result.op = "login" =>
          (result.status = 200
              <=> \E a \in seen.accounts :
                     /\ a.email = result.email
                     /\ a.password = result.password)
    /\ (result.op = "read_me" /\ IssuedFor(result.token) # {}) =>
          /\ result.status = 200
          /\ IssuedFor(result.token) = {result.body.id}

\* A login with a password of more than 72 characters that an accepted
\* change of password set is answered 200.
CredentialLifecycleWitness ==
    /\ result.op = "login"
    /\ result.status = 200
    /\ Len(result.password) > BcryptMaxBytes
    /\ \E a \in seen.accounts :
          /\ a.email = result.email
          /\ a.set_by = "change_password"

(***************************************************************************)
(* goals.py and transactions.py.                                           *)
(***************************************************************************)
GoalMemberRead(member) ==
    [user_id |-> member.user_id, role |-> member.role]

GoalRead(database, goal) ==
    [id |-> goal.id, owner_id |-> goal.owner_id, title |-> goal.title,
     members |-> {GoalMemberRead(m) :
                     m \in {n \in database.goal_member :
                               n.goal_id = goal.id}}]

create_goal(database, token, payload) ==
    LET current == get_current_user(database, token)
        goal == [id |-> NextId(database.goal),
                 owner_id |-> current.user.id, title |-> payload.title]
        owner_member == [id |-> NextId(database.goal_member),
                         goal_id |-> goal.id,
                         user_id |-> current.user.id, role |-> "owner"]
        committed == [database EXCEPT
                         !.goal = @ \cup {goal},
                         !.goal_member = @ \cup {owner_member}]
    IN IF current.status # 200 THEN Response(database, current.status, <<>>)
       ELSE IF \E m \in database.goal_member :
                  m.goal_id = goal.id /\ m.user_id = current.user.id
       THEN Response(database, 500, "IntegrityError")
       ELSE Response(committed, 201, GoalRead(committed, goal))

\* The one element of a singleton.
The(S) == CHOOSE x \in S : TRUE

\* _ensure_goal_membership: TRUE when the 403 is not raised.
_ensure_goal_membership(goal_id, user_id, database) ==
    \E m \in database.goal_member :
        m.goal_id = goal_id /\ m.user_id = user_id

\* A select by the id alone, whatever the goal of the row.
get_transaction_by_id(transaction_id, goal_id, database) ==
    {t \in database.transaction : t.id = transaction_id}

\* _get_transaction: the rows the select finds (none: 404).
_get_transaction(transaction_id, goal_id, database) ==
    {t \in database.transaction :
        t.id = transaction_id /\ t.goal_id = goal_id}

TransactionType == {"deposit", "withdrawal"}

TransactionRead(transaction) == transaction

create_transaction(database, token, goal_id, payload) ==
    LET current == get_current_user(database, token)
        transaction == [id |-> NextId(database.transaction),
                        goal_id |-> goal_id,
                        user_id |-> current.user.id,
                        type |-> payload.type,
                        occurred_on |-> payload.occurred_on]
    IN IF current.status # 200 THEN Response(database, current.status, <<>>)
       ELSE IF ~_ensure_goal_membership(goal_id, current.user.id, database)
       THEN Response(database, 403, <<>>)
       ELSE IF payload.type \notin TransactionType
       THEN Response(database, 500, <<>>)
       ELSE Response([database EXCEPT !.transaction = @ \cup {transaction}],
                     201, TransactionRead(transaction))

\* The orders in which ORDER BY occurred_on DESC may return the rows.
OrderedByOccurredOnDesc(found) ==
    {body \in [1..Cardinality(found) -> found] :
        /\ Range(body) = found
        /\ \A i \in 1..(Len(body) - 1) :
              body[i].occurred_on >= body[i + 1].occurred_on}

\* list_transactions: the response for each order the database may choose.
list_transactions(database, token, goal_id) ==
    LET current == get_current_user(database, token)
        found == {t \in database.transaction : t.goal_id = goal_id}
    IN IF current.status # 200 THEN {Response(database, current.status, <<>>)}
       ELSE IF ~_ensure_goal_membership(goal_id, current.user.id, database)
       THEN {Response(database, 403, <<>>)}
       ELSE {Response(database, 200, body) :
                body \in OrderedByOccurredOnDesc(found)}

\* update(Transaction).where(id == transaction.id).values(**update_data)
update_where(database, transaction_id, update_data) ==
    {IF t.id = transaction_id
     THEN [t EXCEPT !.type = update_data.type,
                    !.occurred_on = update_data.occurred_on]
     ELSE t : t \in database.transaction}

update_transaction(database, token, goal_id, transaction_id, payload) ==
    LET current == get_current_user(database, token)
        committed == [database EXCEPT !.transaction =
                         update_where(database, transaction_id, payload)]
    IN IF current.status # 200 THEN Response(database, current.status, <<>>)
       ELSE IF ~_ensure_goal_membership(goal_id, current.user.id, database)
       THEN Response(database, 403, <<>>)
       ELSE IF _get_transaction(transaction_id, goal_id, database) = {}
       THEN Response(database, 404, <<>>)
       ELSE IF payload.type \notin TransactionType
       THEN Response(database, 500, <<>>)
       ELSE IF _get_transaction(transaction_id, goal_id, committed) = {}
       THEN Response(committed, 404, <<>>)
       ELSE Response(committed, 200,
                     TransactionRead(
                        The(_get_transaction(transaction_id, goal_id,
                                             committed))))

\* A delete that leaves out the condition on the id.
delete_where_goal(database, transaction_id, goal_id) ==
    {t \in database.transaction : t.goal_id # goal_id}

\* delete(Transaction).where(id == transaction_id, goal_id == goal_id)
delete_where(database, transaction_id, goal_id) ==
    {t \in database.transaction :
        ~(t.id = transaction_id /\ t.goal_id = goal_id)}

delete_transaction(database, token, goal_id, transaction_id) ==
    LET current == get_current_user(database, token)
    IN IF current.status # 200 THEN Response(database, current.status, <<>>)
       ELSE IF ~_ensure_goal_membership(goal_id, current.user.id, database)
       THEN Response(database, 403, <<>>)
       ELSE IF _get_transaction(transaction_id, goal_id, database) = {}
       THEN Response(database, 404, <<>>)
       ELSE Response([database EXCEPT !.transaction =
                         delete_where(database, transaction_id, goal_id)],
                     204, <<>>)

(***************************************************************************)
(* Two signed-up users create goals and create, list and delete            *)
(* transactions in any order.  seen keeps what the answers told: the goals *)
(* created with their creators, and the transactions created and not yet   *)
(* deleted, and of the last request what tells a delete_transaction from   *)
(* the others: its name, its status and, of a delete, its arguments.       *)
(***************************************************************************)
UserPassword == Repeat("p", MinPasswordLength)

UserEmails ==
    <<Address("a", <<"x", ".", "c">>), Address("b", <<"x", ".", "c">>)>>

SignedUp(database, email) ==
    signup(database, [email |-> email, name |-> "name",
                      password |-> UserPassword], "salt1").db

\* The database after the two signups.
TwoUsersDb == SignedUp(SignedUp(EmptyDb, UserEmails[1]), UserEmails[2])

\* The tokens the logins of the two users give.
IssuedTokens ==
    [user_id \in {1, 2} |->
        login(TwoUsersDb, [username |-> UserEmails[user_id],
                           password |-> UserPassword]).body]

TokenOf(user_id) == IssuedTokens[user_id]

UserIds == {1, 2}

Days == {1, 2}

\* A deposit on either day, and a payload whose type is not a
\* TransactionType.
TransactionPayloads ==
    [type : {"deposit"}, occurred_on : Days]
        \cup {[type |-> "bonus", occurred_on |-> 1]}

InitGoals ==
    /\ pc = "api"
    /\ db = TwoUsersDb
    /\ seen = [goals |-> {}, live |-> {}]
    /\ result = NoResponse
    /\ frames = <<>>
    /\ rows = <<>>
    /\ data = [zip |-> FALSE, members |-> <<>>]
    /\ index = 0
    /\ letters = None

CreateGoal ==
    \E user_id \in UserIds :
        LET r == create_goal(db, TokenOf(user_id), [title |-> "goal"])
        IN /\ NextId(db.goal) <= MaxGoals
           /\ db' = r.db
           /\ result' = [op |-> "create_goal", user_id |-> 0, goal_id |-> 0,
                         transaction_id |-> 0, status |-> r.status]
           /\ seen' = IF r.status = 201
                      THEN [seen EXCEPT !.goals =
                               @ \cup {[id |-> r.body.id,
                                        user_id |-> user_id]}]
                      ELSE seen
           /\ UNCHANGED <<pc, rows, data, index, letters, frames>>

CreateTransaction ==
    \E user_id \in UserIds, goal_id \in 1..MaxGoals,
       payload \in TransactionPayloads :
        LET r == create_transaction(db, TokenOf(user_id), goal_id, payload)
        IN /\ NextId(db.transaction) <= MaxTransactions
           /\ db' = r.db
           /\ result' = [op |-> "create_transaction", user_id |-> user_id,
                         goal_id |-> goal_id, transaction_id |-> 0,
                         status |-> r.status]
           /\ seen' = IF r.status = 201
                      THEN [seen EXCEPT !.live = @ \cup {r.body}]
                      ELSE seen
           /\ UNCHANGED <<pc, rows, data, index, letters, frames>>

ListTransactions ==
    \E user_id \in UserIds, goal_id \in 1..MaxGoals :
        \E r \in list_transactions(db, TokenOf(user_id), goal_id) :
           /\ db' = r.db
           /\ result' = [op |-> "list_transactions", user_id |-> user_id,
                         goal_id |-> goal_id, transaction_id |-> 0,
                         status |-> r.status]
           /\ UNCHANGED <<pc, rows, data, index, letters, frames, seen>>

DeleteTransaction ==
    \E user_id \in UserIds, goal_id \in 1..MaxGoals,
       transaction_id \in 1..MaxTransactions :
        LET r == delete_transaction(db, TokenOf(user_id), goal_id,
                                    transaction_id)
        IN /\ db' = r.db
           /\ result' = [op |-> "delete_transaction", user_id |-> user_id,
                         goal_id |-> goal_id,
                         transaction_id |-> transaction_id,
                         status |-> r.status]
           /\ seen' = IF r.status = 204
                      THEN [seen EXCEPT !.live =
                               {t \in @ : ~(t.goal_id = goal_id
                                            /\ t.id = transaction_id)}]
                      ELSE seen
           /\ UNCHANGED <<pc, rows, data, index, letters, frames>>

NextGoals ==
    CreateGoal \/ CreateTransaction \/ ListTransactions \/ DeleteTransaction

SpecGoals == InitGoals /\ [][NextGoals]_vars

UpdateTransaction ==
    \E user_id \in UserIds, goal_id \in 1..MaxGoals,
       transaction_id \in 1..MaxTransactions,
       payload \in TransactionPayloads :
        LET r == update_transaction(db, TokenOf(user_id), goal_id,
                                    transaction_id, payload)
        IN /\ db' = r.db
           /\ result' = [op |-> "update_transaction", user_id |-> user_id,
                         goal_id |-> goal_id,
                         transaction_id |-> transaction_id,
                         status |-> r.status]
           /\ seen' = IF r.status = 200
                      THEN [seen EXCEPT !.live =
                               {t \in @ : t.id # transaction_id}
                                   \cup {r.body}]
                      ELSE seen
           /\ UNCHANGED <<pc, rows, data, index, letters, frames>>

\* The database after each of the two users created a goal.
TwoGoalsDb ==
    create_goal(create_goal(TwoUsersDb, TokenOf(1), [title |-> "goal"]).db,
                TokenOf(2), [title |-> "goal"]).db

InitAccess ==
    /\ pc = "api"
    /\ db = TwoGoalsDb
    /\ seen = [goals |-> {[id |-> m.goal_id, user_id |-> m.user_id] :
                             m \in TwoGoalsDb.goal_member},
               live |-> {}]
    /\ result = NoResponse
    /\ frames = <<>>
    /\ rows = <<>>
    /\ data = [zip |-> FALSE, members |-> <<>>]
    /\ index = 0
    /\ letters = None

NextAccess ==
    \/ CreateTransaction
    \/ ListTransactions
    \/ UpdateTransaction
    \/ DeleteTransaction

SpecAccess == InitAccess /\ [][NextAccess]_vars

\* The transactions created for the goal and not yet deleted.
LiveOf(goal_id) == {t \in seen.live : t.goal_id = goal_id}

\* The creator of every goal is a member of it with role "owner" and a
\* create_transaction of the creator on it is accepted.
CreatorIsOwner ==
    \A g \in seen.goals :
        /\ \E m \in db.goal_member :
              m.goal_id = g.id /\ m.user_id = g.user_id /\ m.role = "owner"
        /\ \A payload \in [type : TransactionType, occurred_on : Days] :
              create_transaction(db, TokenOf(g.user_id), g.id,
                                 payload).status = 201

\* The list of every goal, asked by its creator, holds the transactions
\* created for the goal and not yet deleted, each once.
ListIsLive ==
    \A g \in seen.goals :
        \A r \in list_transactions(db, TokenOf(g.user_id), g.id) :
            /\ r.status = 200
            /\ Range(r.body) = LiveOf(g.id)
            /\ Len(r.body) = Cardinality(LiveOf(g.id))

\* A delete_transaction by the creator of the goal, of a transaction that
\* is there, is answered 204 and takes that row and no other from the table.
DeleteRemovesOne ==
    (/\ result'.op = "delete_transaction"
     /\ [id |-> result'.goal_id, user_id |-> result'.user_id] \in seen.goals
     /\ \E t \in LiveOf(result'.goal_id) : t.id = result'.transaction_id) =>
        /\ result'.status = 204
        /\ db.transaction \ db'.transaction =
              {t \in seen.live : /\ t.goal_id = result'.goal_id
                                 /\ t.id = result'.transaction_id}
        /\ db'.transaction \subseteq db.transaction
        /\ Cardinality(db.transaction \ db'.transaction) = 1

\* C15: create_goal makes the creator a member with role "owner" and the
\* creator's create_transaction on the new goal is accepted; after any
\* sequence of create_transaction and delete_transaction calls the list of
\* a goal holds exactly the transactions created for it and not yet
\* deleted; the delete of an existing transaction is answered 204 and
\* removes that transaction and no other.
GoalTransactionLifecycle ==
    [](CreatorIsOwner /\ ListIsLive) /\ [][DeleteRemovesOne]_vars

\* The creator of a goal deleted one of its transactions and another one,
\* created before, is still listed.
GoalTransactionLifecycleWitness ==
    /\ result.op = "delete_transaction"
    /\ result.status = 204
    /\ [id |-> result.goal_id, user_id |-> result.user_id] \in seen.goals
    /\ Cardinality(LiveOf(result.goal_id)) = 1

(***************************************************************************)
(* fund_snapshots.py: the bulk import.                                     *)
(***************************************************************************)
\* A nullable integer column.
Null == [null |-> TRUE, id |-> 0]

NotNull(id) == [null |-> FALSE, id |-> id]

\* A lower that leaves the text as it is.
lower_unchanged(s) == s

\* str.lower
lower(s) == [i \in 1..Len(s) |-> LowerChar(s[i])]

\* str.split(sep) on a one-character separator
RECURSIVE split(_, _)
split(s, sep) ==
    IF \A i \in 1..Len(s) : s[i] # sep THEN <<s>>
    ELSE LET at == CHOOSE i \in 1..Len(s) :
                      s[i] = sep /\ \A j \in 1..(i - 1) : s[j] # sep
         IN <<SubSeq(s, 1, at - 1)>> \o split(SubSeq(s, at + 1, Len(s)), sep)

IsDigits(s) == s # <<>> /\ Range(s) \subseteq Range(DigitChars)

IsLeapYear(year) ==
    year % 4 = 0 /\ (year % 100 # 0 \/ year % 400 = 0)

DaysInMonth(year, month) ==
    IF month = 2 THEN (IF IsLeapYear(year) THEN 29 ELSE 28)
    ELSE IF month \in {4, 6, 9, 11} THEN 30 ELSE 31

\* datetime.strptime(text, "%Y-%m-%d").date(), ValueError as a raise: four
\* digits, then one or two digits of a month, then one or two digits (or a
\* space and one digit) of a day of that month.
strptime_date(text) ==
    LET parts == split(text, "-")
        year == DigitsValue(parts[1], 0)
        month == DigitsValue(parts[2], 0)
        day_text == IF Len(parts[3]) = 2 /\ parts[3][1] = " "
                    THEN Tail(parts[3]) ELSE parts[3]
        day == DigitsValue(day_text, 0)
    IN IF /\ Len(parts) = 3
          /\ IsDigits(parts[1]) /\ Len(parts[1]) = 4 /\ year >= 1
          /\ IsDigits(parts[2]) /\ Len(parts[2]) <= 2
          /\ month \in 1..12
          /\ IsDigits(day_text) /\ Len(parts[3]) <= 2
          /\ day \in 1..DaysInMonth(year, month)
       THEN Ok([year |-> year, month |-> month, day |-> day])
       ELSE Raise("ValueError")

_parse_reference_date(value) ==
    LET stripped == strip(value)
        parsed == strptime_date(stripped)
    IN IF stripped = <<>> THEN Raise("400 Reference date is required.")
       ELSE IF parsed.raised # "none"
       THEN Raise("400 Invalid date format")
       ELSE parsed

\* The texts Decimal() accepts: a sign, digits with at most one point, an
\* exponent; or a sign and a name of infinity or NaN (texts with "_" are
\* not among the inputs).
IsDecimalLiteral(text) ==
    LET unsigned == IF text # <<>> /\ Head(text) \in {"+", "-"}
                    THEN Tail(text) ELSE text
        low == lower(unsigned)
        mantissa_exponent == split(low, "e")
        mantissa == split(mantissa_exponent[1], ".")
        exponent == IF Len(mantissa_exponent) = 2
                    THEN mantissa_exponent[2] ELSE <<"0">>
        exponent_digits == IF exponent # <<>> /\ Head(exponent) \in {"+", "-"}
                           THEN Tail(exponent) ELSE exponent
    IN \/ low \in {<<"i", "n", "f">>,
                   <<"i", "n", "f", "i", "n", "i", "t", "y">>}
       \/ \E k \in {3, 4} :
             /\ Len(low) >= k
             /\ SubSeq(low, 1, k) \in {<<"n", "a", "n">>,
                                       <<"s", "n", "a", "n">>}
             /\ Range(SubSeq(low, k + 1, Len(low)))
                   \subseteq Range(DigitChars)
       \/ /\ Len(mantissa_exponent) <= 2
          /\ Len(mantissa) <= 2
          /\ \A i \in 1..Len(mantissa) :
                Range(mantissa[i]) \subseteq Range(DigitChars)
          /\ \E i \in 1..Len(mantissa) : mantissa[i] # <<>>
          /\ IsDigits(exponent_digits)

\* str.replace(",", "")
remove_commas(s) == SelectSeq(s, LAMBDA ch : ch # ",")

_parse_amount(value) ==
    LET stripped == remove_commas(strip(value))
    IN IF stripped = <<>> THEN Raise("400 Amount is required.")
       ELSE IF ~IsDecimalLiteral(stripped) THEN Raise("400 Invalid amount")
       ELSE Ok([decimal |-> stripped])

_normalize_row(row) == [i \in 1..Len(row) |-> strip(row[i])]

_get_categories_for_user(user_id, database) ==
    {c \in database.fund_category : c.user_id = user_id}

\* category_map.get(key): the categories of the dict under the key (the
\* dict keeps, of several categories with one key, the one the query
\* returned last: any of them).
category_map_get(categories, key) ==
    {c \in categories : c.name # <<>> /\ lower(strip(c.name)) = key}

\* The loop over the data rows: the snapshots to create, or the first 400.
RECURSIVE import_loop(_, _, _, _)
import_loop(data_rows, categories, user_id, snapshots_to_create) ==
    IF data_rows = <<>> THEN Ok(snapshots_to_create)
    ELSE LET normalized == _normalize_row(Head(data_rows))
             first3 == SubSeq(normalized \o <<<<>>, <<>>, <<>>>>, 1, 3)
             reference_value == first3[1]
             category_value == first3[2]
             amount_value == first3[3]
             reference_date == _parse_reference_date(reference_value)
             amount == _parse_amount(amount_value)
             category_key == lower(strip(category_value))
             match == category_map_get(categories, category_key)
         IN IF reference_value = <<>> /\ category_value = <<>>
               /\ amount_value = <<>>
            THEN import_loop(Tail(data_rows), categories, user_id,
                             snapshots_to_create)
            ELSE IF reference_date.raised # "none" THEN reference_date
            ELSE IF amount.raised # "none" THEN amount
            ELSE IF strip(category_value) # <<>> /\ match = {}
            THEN Raise("400 Unknown category")
            ELSE import_loop(
                    Tail(data_rows), categories, user_id,
                    Append(snapshots_to_create,
                           [user_id |-> user_id,
                            category_id |->
                               IF strip(category_value) = <<>> THEN Null
                               ELSE NotNull((CHOOSE c \in match : TRUE).id),
                            reference_date |-> reference_date.value,
                            amount |-> amount.value]))

\* session.add_all and commit: the rows get the next ids in order.
add_all(table, new_rows) ==
    table \cup {[id |-> NextId(table) + k - 1,
                 user_id |-> new_rows[k].user_id,
                 category_id |-> new_rows[k].category_id,
                 reference_date |-> new_rows[k].reference_date,
                 amount |-> new_rows[k].amount] : k \in 1..Len(new_rows)}

\* From "if not snapshots_to_create" on.
import_commit(database, looped) ==
    IF looped.raised # "none" THEN Response(database, 400, looped.raised)
    ELSE IF looped.value = <<>>
    THEN Response(database, 400, "No valid data rows were found.")
    ELSE The({Response(committed, 201,
                       committed.fund_snapshot \ database.fund_snapshot) :
                 committed \in {[database EXCEPT !.fund_snapshot =
                                    add_all(@, looped.value)]}})

\* The import with each snapshot added and committed as its row is read: the
\* rows before the first refused one are stored when the 400 is raised.
import_parsed_rows_row_by_row(database, current_user, parsed_rows) ==
    IF parsed_rows.raised # "none"
    THEN Response(database, 400, "Invalid Excel file.")
    ELSE IF Len(parsed_rows.value) <= 1
    THEN Response(database, 400, "No data rows found in the file.")
    ELSE LET data_rows == Tail(parsed_rows.value)
             categories == _get_categories_for_user(current_user.id, database)
             upto(k) == import_loop(SubSeq(data_rows, 1, k), categories,
                                    current_user.id, <<>>)
             accepted == {k \in 0..Len(data_rows) : upto(k).raised = "none"}
             last == CHOOSE k \in accepted : \A j \in accepted : j <= k
             looped == upto(Len(data_rows))
         IN IF looped.raised # "none"
            THEN Response([database EXCEPT !.fund_snapshot =
                              add_all(@, upto(last).value)],
                          400, looped.raised)
            ELSE import_commit(database, looped)

\* The upload of no bytes ("if not contents").
NoBytes == <<>>

\* From "if len(parsed_rows) <= 1" on.
import_parsed_rows(database, current_user, parsed_rows) ==
    IF parsed_rows.raised # "none"
    THEN Response(database, 400, "Invalid Excel file.")
    ELSE IF Len(parsed_rows.value) <= 1
    THEN Response(database, 400, "No data rows found in the file.")
    ELSE The({import_commit(database, looped) :
                 looped \in {import_loop(
                                Tail(parsed_rows.value),
                                _get_categories_for_user(current_user.id,
                                                         database),
                                current_user.id, <<>>)}})

import_fund_snapshots(database, token, contents) ==
    LET current == get_current_user(database, token)
    IN IF current.status # 200 THEN Response(database, current.status, <<>>)
       ELSE IF contents = NoBytes
       THEN Response(database, 400, "Uploaded file is empty.")
       ELSE The({import_parsed_rows(database, current.user, parsed_rows) :
                    parsed_rows \in {extract_rows_from_workbook(contents)}})

(***************************************************************************)
(* A workbook is uploaded to the import, by either of two users, again and *)
(* again.  The database is one with categories in it: "Apartment" of the   *)
(* first user and "Stocks" of the second.                                  *)
(***************************************************************************)
ImportDb ==
    [TwoUsersDb EXCEPT !.fund_category =
        {[id |-> 1, user_id |-> 1, name |-> <<"A", "p", "a", "r", "t", "m", "e", "n", "t">>],
         [id |-> 2, user_id |-> 2, name |-> <<"S", "t", "o", "c", "k", "s">>]}]

HeaderRow == <<<<"d", "a", "t", "e">>, <<"c", "a", "t", "e", "g", "o", "r", "y">>, <<"a", "m", "o", "u", "n", "t">>>>

\* Data rows: valid ones (a category of the first user, no category, a
\* category in another case with spaces around it); rows blank in their
\* first three cells; rows with a date, an amount or a category the import
\* refuses.
DataRows ==
    {<<<<"2", "0", "2", "5", "-", "0", "3", "-", "0", "1">>, <<"A", "p", "a", "r", "t", "m", "e", "n", "t">>, <<"1", "0", "0", "0", "0">>>>,
     <<<<"2", "0", "2", "5", "-", "0", "3", "-", "0", "2">>, <<>>, <<"2", "0", "0", "0", "0">>>>,
     <<<<"2", "0", "2", "4", "-", "0", "2", "-", "2", "9">>, <<" ", "a", "p", "a", "r", "t", "m", "e", "n", "t", " ">>, <<"1", "0", "0", "0", ".", "5">>>>,
     <<<<>>, <<>>, <<>>, <<" ", "x">>>>,
     <<<<>>, <<" ">>>>,
     <<<<"2", "0", "2", "5", "-", "0", "2", "-", "3", "0">>, <<>>, <<"1">>>>,
     <<<<"2", "0", "2", "5", "-", "0", "3", "-", "0", "1">>, <<>>, <<"a", "b", "c">>>>,
     <<<<"2", "0", "2", "5", "-", "0", "3", "-", "0", "1">>, <<"S", "t", "o", "c", "k", "s">>, <<"1">>>>,
     <<<<"2", "0", "2", "5", "-", "0", "3", "-", "0", "1">>>>,
     <<<<>>, <<>>, <<" ", "5">>>>}

ImportGrids == {<<HeaderRow>> \o body : body \in SeqsUpTo(DataRows, MaxDataRows)}

\* Bytes that are not a zip archive.
NotAWorkbook == [zip |-> FALSE, members |-> <<>>]

InitImport ==
    /\ pc = "api"
    /\ db = ImportDb
    /\ seen = <<>>
    /\ result = NoResponse
    /\ frames = <<>>
    /\ rows \in ImportGrids
    /\ data \in {build_workbook_from_rows(rows), NotAWorkbook, NoBytes}
    /\ index = 0
    /\ letters = None

ImportFundSnapshots ==
    \E user_id \in UserIds :
        \E r \in {import_fund_snapshots(db, TokenOf(user_id), data)} :
           /\ NextId(db.fund_snapshot) + MaxDataRows - 1 <= MaxSnapshots
           /\ db' = r.db
           /\ result' = [op |-> "import_fund_snapshots",
                         user_id |-> user_id,
                         status |-> r.status, body |-> r.body]
           /\ UNCHANGED <<pc, rows, data, index, letters, frames, seen>>

NextImport == ImportFundSnapshots

SpecImport == InitImport /\ [][NextImport]_vars

\* What the claim says of a workbook, read from the grid that was encoded.
CellAt(row, i) == IF i <= Len(row) THEN row[i] ELSE <<>>

IsWhite(text) == \A i \in 1..Len(text) : text[i] \in Whitespace

\* The text without the whitespace before its first and after its last
\* other character.
Core(text) ==
    LET inked == {i \in 1..Len(text) : text[i] \notin Whitespace}
    IN IF inked = {} THEN <<>>
       ELSE SubSeq(text, CHOOSE i \in inked : \A j \in inked : i <= j,
                   CHOOSE i \in inked : \A j \in inked : j <= i)

SameLetter(a, b) ==
    \/ a = b
    \/ \E k \in 1..Len(UpperLetters) :
          {a, b} = {UpperLetters[k], LowerLetters[k]}

SameFolded(s, t) ==
    Len(s) = Len(t) /\ \A i \in 1..Len(s) : SameLetter(s[i], t[i])

\* YYYY-MM-DD of a day of the calendar.
IsYMD(text) ==
    /\ Len(text) = 10
    /\ text[5] = "-" /\ text[8] = "-"
    /\ \A i \in {1, 2, 3, 4, 6, 7, 9, 10} : text[i] \in Range(DigitChars)
    /\ LET year == DigitsValue(SubSeq(text, 1, 4), 0)
           month == DigitsValue(SubSeq(text, 6, 7), 0)
           day == DigitsValue(SubSeq(text, 9, 10), 0)
       IN year >= 1 /\ month \in 1..12 /\ day \in 1..DaysInMonth(year, month)

\* Digits with at most one decimal point, after an optional sign.
IsPlainDecimal(text) ==
    LET unsigned == IF text # <<>> /\ Head(text) \in {"+", "-"}
                    THEN Tail(text) ELSE text
    IN /\ \E i \in 1..Len(unsigned) : unsigned[i] \in Range(DigitChars)
       /\ \A i \in 1..Len(unsigned) :
             unsigned[i] \in Range(DigitChars) \cup {"."}
       /\ Cardinality({i \in 1..Len(unsigned) : unsigned[i] = "."}) <= 1

IsBlankRow(row) ==
    IsWhite(CellAt(row, 1)) /\ IsWhite(CellAt(row, 2))
        /\ IsWhite(CellAt(row, 3))

\* The data rows that are not blank in date, category and amount.
RemainingRows(grid) == SelectSeq(Tail(grid), LAMBDA row : ~IsBlankRow(row))

\* The caller's categories the category cell of the row names.
NamedCategories(row, user_id) ==
    {c \in db.fund_category :
        /\ c.user_id = user_id
        /\ SameFolded(Core(c.name), Core(CellAt(row, 2)))}

IsValidRow(row, user_id) ==
    /\ IsYMD(Core(CellAt(row, 1)))
    /\ IsPlainDecimal(Core(CellAt(row, 3)))
    /\ IsWhite(CellAt(row, 2)) \/ NamedCategories(row, user_id) # {}

ExpectedCategoryIds(row, user_id) ==
    IF IsWhite(CellAt(row, 2)) THEN {Null}
    ELSE {NotNull(c.id) : c \in NamedCategories(row, user_id)}

\* The step is an import of the workbook of the grid, a header and data
\* rows, all of whose remaining rows are valid.
ImportOfValidRows ==
    /\ result'.op = "import_fund_snapshots"
    /\ data = build_workbook_from_rows(rows)
    /\ Len(rows) >= 2
    /\ \A k \in 1..Len(RemainingRows(rows)) :
          IsValidRow(RemainingRows(rows)[k], result'.user_id)

\* The import is answered 201 and the table has one new snapshot for each
\* remaining row, of the caller and of the row's category, and no other
\* change.
OnePerRemainingRow ==
    LET remaining == RemainingRows(rows)
        created == db'.fund_snapshot \ db.fund_snapshot
    IN /\ result'.status = 201
       /\ db.fund_snapshot \subseteq db'.fund_snapshot
       /\ Cardinality(created) = Len(remaining)
       /\ \E f \in [1..Len(remaining) -> created] :
             /\ \A j, k \in 1..Len(remaining) : f[j] = f[k] => j = k
             /\ \A k \in 1..Len(remaining) :
                   /\ f[k].user_id = result'.user_id
                   /\ f[k].category_id
                         \in ExpectedCategoryIds(remaining[k],
                                                 result'.user_id)

\* C13 as stated: an import of a workbook of a header and data rows, whose
\* rows not blank in date, category and amount are all valid, is answered
\* 201 and creates one snapshot per such row, owned by the caller, with a
\* null category for a blank category cell and the matched category's id
\* otherwise.
ImportOnePerRow == [][ImportOfValidRows => OnePerRemainingRow]_vars

\* C13: the same, for a workbook in which at least one data row is not
\* blank in date, category and amount.
ImportOnePerRowIfAny ==
    [][(ImportOfValidRows /\ RemainingRows(rows) # <<>>)
           => OnePerRemainingRow]_vars

\* The first user imported a workbook of a blank row and a row naming
\* "Apartment" in lower case with spaces around: one snapshot, of that
\* category.
ImportOnePerRowIfAnyWitness ==
    /\ result.op = "import_fund_snapshots"
    /\ result.status = 201
    /\ data = build_workbook_from_rows(rows)
    /\ Len(rows) = 3
    /\ IsBlankRow(rows[2])
    /\ ~IsWhite(CellAt(rows[3], 2)) /\ CellAt(rows[3], 2) # Core(CellAt(rows[3], 2))
    /\ Cardinality(result.body) = 1
    /\ \A snapshot \in result.body :
          snapshot.user_id = 1 /\ snapshot.category_id = NotNull(1)

(***************************************************************************)
(* _column_letter, iteration by iteration, on every integer from           *)
(* -MaxNegative to MaxColumn.  index and letters are the locals index and  *)
(* result of the function; seen keeps the argument.                        *)
(***************************************************************************)
\* An iteration that divides the index as it is (digits 0..25).
column_letter_step_unshifted(idx, res) ==
    [index |-> idx \div 26,
     result |-> <<UpperLetters[(idx % 26) + 1]>> \o res]

\* index, remainder = divmod(index - 1, 26); result = chr(65 + remainder) + result
column_letter_step(idx, res) ==
    [index |-> (idx - 1) \div 26,
     result |-> <<UpperLetters[((idx - 1) % 26) + 1]>> \o res]

InitLetter ==
    /\ pc = "while"
    /\ index \in (0 - MaxNegative)..MaxColumn
    /\ seen = [index |-> index]
    /\ letters = <<>>
    /\ result = Pending
    /\ rows = <<>>
    /\ data = [zip |-> FALSE, members |-> <<>>]
    /\ frames = <<>>
    /\ db = <<>>

LetterIteration ==
    /\ pc = "while"
    /\ index > 0
    /\ index' = column_letter_step(index, letters).index
    /\ letters' = column_letter_step(index, letters).result
    /\ UNCHANGED <<pc, rows, data, result, frames, db, seen>>

LetterReturn ==
    /\ pc = "while"
    /\ ~(index > 0)
    /\ result' = Ok(IF letters = <<>> THEN <<"A">> ELSE letters)
    /\ pc' = "returned"
    /\ UNCHANGED <<rows, data, index, letters, frames, db, seen>>

NextLetter == LetterIteration \/ LetterReturn

\* A call that has started goes on to its next statement.
SpecLetter == InitLetter /\ [][NextLetter]_vars /\ WF_vars(NextLetter)

\* The number a string of letters writes with digits A = 1 .. Z = 26.
RECURSIVE BijectiveValue(_)
BijectiveValue(s) ==
    IF s = <<>> THEN 0
    ELSE 26 * BijectiveValue(SubSeq(s, 1, Len(s) - 1))
            + PosIn(s[Len(s)], UpperLetters)

LetterExamples ==
    {<<26, <<"Z">>>>, <<27, <<"A", "A">>>>, <<52, <<"A", "Z">>>>,
     <<53, <<"B", "A">>>>, <<702, <<"Z", "Z">>>>,
     <<703, <<"A", "A", "A">>>>}

ColumnLetterReturned ==
    pc = "returned" =>
        /\ Len(result.value) >= 1
        /\ Range(result.value) \subseteq Range(UpperLetters)
        /\ seen.index <= 0 => result.value = <<"A">>
        /\ seen.index >= 1 => BijectiveValue(result.value) = seen.index
        /\ \A e \in LetterExamples :
              seen.index = e[1] => result.value = e[2]

\* C21: for every integer argument the loop of _column_letter ends, and the
\* result is a non-empty string of letters A..Z: the bijective base-26
\* numeral of the argument (26 "Z", 27 "AA", 52 "AZ", 53 "BA", 702 "ZZ",
\* 703 "AAA"), and "A", the result for 1, for every argument <= 0.
ColumnLetterTotal == []ColumnLetterReturned /\ <>(pc = "returned")

\* The call with a negative argument has returned "A".
ColumnLetterTotalWitness ==
    /\ pc = "returned"
    /\ seen.index < 0
    /\ result.value = <<"A">>

(***************************************************************************)
(* _column_index on every string of up to MaxLetters characters of a       *)
(* sample of the characters a string may hold.                             *)
(***************************************************************************)
IndexChars ==
    {"A", "Z", "a", "z", "1", "-", " ", "e-acute", "sharp-s", "long-s"}

InitIndex ==
    /\ pc = "letters"
    /\ letters \in SeqsUpTo(IndexChars, MaxLetters)
    /\ index = 0
    /\ result = Pending
    /\ rows = <<>>
    /\ data = [zip |-> FALSE, members |-> <<>>]
    /\ ApiIdle

NextIndex == ColumnIndex

SpecIndex == InitIndex /\ [][NextIndex]_vars

\* The digit of a letter A..Z or a..z.
LetterDigit(ch) ==
    IF ch \in Range(UpperLetters) THEN PosIn(ch, UpperLetters)
    ELSE PosIn(ch, LowerLetters)

\* The value, in digits A = 1 .. Z = 26 whatever the case, of the letters
\* A..Z and a..z of the string, the other characters left out.
RECURSIVE LettersValue(_)
LettersValue(s) ==
    IF s = <<>> THEN 0
    ELSE IF s[Len(s)] \in Range(UpperLetters) \cup Range(LowerLetters)
    THEN 26 * LettersValue(SubSeq(s, 1, Len(s) - 1))
            + LetterDigit(s[Len(s)])
    ELSE LettersValue(SubSeq(s, 1, Len(s) - 1))

\* C22: _column_index returns a positive integer for every string: the
\* value of its letters whatever their case, the characters outside A..Z
\* ignored, and 1 for a string without such letters.
ColumnIndexIgnoresOthers ==
    pc = "indexed" =>
        /\ result.value >= 1
        /\ result.value = Max(LettersValue(letters), 1)

(***************************************************************************)
(* The worksheet part build_workbook_from_rows wrote, against the grid.    *)
(***************************************************************************)
\* The worksheet part of the package in data.
WrittenSheet == read(data.members, SHEET1_PATH).value

\* The positions of the values of the row that are neither "" nor absent,
\* in increasing order.
RECURSIVE ValuePositions(_, _)
ValuePositions(row, c) ==
    IF c > Len(row) THEN <<>>
    ELSE (IF row[c] = None \/ row[c] = <<>> THEN <<>> ELSE <<c>>)
         \o ValuePositions(row, c + 1)

\* The row element is the one of row r of the grid: numbered r, with one
\* inline-string cell per value, in column order, referred to by the
\* letters of the value's position followed by r.
IsRowElementOf(element, row, r) ==
    LET positions == ValuePositions(row, 1)
    IN /\ int(element.r) = [ok |-> TRUE, n |-> r]
       /\ Len(element.cells) = Len(positions)
       /\ \A k \in 1..Len(positions) :
             /\ element.cells[k].t = "inlineStr"
             /\ element.cells[k].r
                   = _column_letter(positions[k]) \o str(r)

OneRowElementPerRow ==
    /\ Len(WrittenSheet.sheetData) = Len(rows)
    /\ \A r \in 1..Len(rows) :
          IsRowElementOf(WrittenSheet.sheetData[r], rows[r], r)

\* C23 as stated: one row element per input row, in input order, numbered
\* by its position, holding one inline-string cell for each value that is
\* neither "" nor absent, in column order, with the reference
\* _column_letter(c) followed by r, and no cell for the other values.
RowElementPerRow == pc = "decode" => OneRowElementPerRow

\* C23: the same for a grid of at least one row; for the grid of no row,
\* one row element numbered 1 without cells.
RowElementPerRowIfAny ==
    pc = "decode" =>
        IF rows # <<>> THEN OneRowElementPerRow
        ELSE /\ Len(WrittenSheet.sheetData) = 1
             /\ IsRowElementOf(WrittenSheet.sheetData[1], <<>>, 1)

\* A grid of an empty row and a row of an absent value and a string: the
\* second row element has the one cell B2.
RowElementPerRowIfAnyWitness ==
    /\ pc = "decode"
    /\ rows = << <<>>, <<None, Special>> >>
    /\ Len(WrittenSheet.sheetData) = 2
    /\ WrittenSheet.sheetData[1].cells = <<>>
    /\ Len(WrittenSheet.sheetData[2].cells) = 1
    /\ WrittenSheet.sheetData[2].cells[1].r = <<"B", "2">>

\* The length of the widest row of the grid (0 without rows).
Widest(grid) ==
    IF grid = <<>> THEN 0
    ELSE CHOOSE w \in {Len(grid[r]) : r \in 1..Len(grid)} :
            \A r \in 1..Len(grid) : Len(grid[r]) <= w

\* "A1:", the column letters of the widest row, the number of row elements.
DimensionOfWidest ==
    WrittenSheet.dimension
        = <<"A", "1", ":">> \o _column_letter(Widest(rows))
             \o str(Len(WrittenSheet.sheetData))

OneEmptyRowElement ==
    /\ WrittenSheet.dimension = <<"A", "1", ":", "A", "1">>
    /\ Len(WrittenSheet.sheetData) = 1
    /\ WrittenSheet.sheetData[1].cells = <<>>

\* C24 as stated: the dimension is "A1:" followed by the column letters of
\* the widest row and by the number of row elements emitted; a grid with
\* zero rows or zero columns gives "A1:A1" and one empty row element.
DimensionReference ==
    pc = "decode" =>
        /\ DimensionOfWidest
        /\ (rows = <<>> \/ Widest(rows) = 0) => OneEmptyRowElement

\* C24: the same, the second part for a grid with zero rows or with one row
\* of zero columns.
DimensionReferenceOneRow ==
    pc = "decode" =>
        /\ DimensionOfWidest
        /\ (rows = <<>> \/ rows = << <<>> >>) => OneEmptyRowElement

\* The widest row is the second and holds no value: the dimension is A1:B2.
DimensionReferenceOneRowWitness ==
    /\ pc = "decode"
    /\ rows = << <<Special>>, <<None, <<>>>> >>
    /\ WrittenSheet.dimension = <<"A", "1", ":", "B", "2">>

(***************************************************************************)
(* The import stores all the rows of the file or none.                     *)
(***************************************************************************)
\* The step is an import that is answered with an error.
ImportRefused ==
    /\ result'.op = "import_fund_snapshots"
    /\ result'.status # 201

\* C25: whenever import_fund_snapshots responds with an error (an empty
\* upload, a file that fails to decode, at most one decoded row, a data row
\* with a missing or invalid date, a missing or invalid amount or an unknown
\* category, no data row that is not blank), the stored fund snapshots are
\* what they were, also when earlier rows of the file were valid.
ImportAllOrNothing ==
    [][ImportRefused => db'.fund_snapshot = db.fund_snapshot]_vars

\* An import was refused for the second data row of a workbook whose first
\* data row is valid, after an import that stored snapshots.
ImportAllOrNothingWitness ==
    /\ result.op = "import_fund_snapshots"
    /\ result.status = 400
    /\ result.body = "400 Unknown category"
    /\ data = build_workbook_from_rows(rows)
    /\ Len(rows) = 3
    /\ IsValidRow(rows[2], result.user_id)
    /\ ~IsBlankRow(rows[2])
    /\ db.fund_snapshot # {}

(***************************************************************************)
(* transactions.py: who may reach the transactions of a goal.              *)
(***************************************************************************)
TransactionOps ==
    {"create_transaction", "list_transactions", "update_transaction",
     "delete_transaction"}

\* The step is a request under /goals/{goal_id}/transactions of a user
\* without a goal_member row for the goal.
ByNonMember ==
    /\ result'.op \in TransactionOps
    /\ ~\E m \in db.goal_member :
          m.goal_id = result'.goal_id /\ m.user_id = result'.user_id

\* The step is an update or a delete of the id of a transaction of another
\* goal than the one of the path.
OfOtherGoal ==
    /\ result'.op \in {"update_transaction", "delete_transaction"}
    /\ \E t \in db.transaction :
          t.id = result'.transaction_id /\ t.goal_id # result'.goal_id

\* The transaction the request names is what it was.
TransactionKept ==
    \A t \in db.transaction :
        t.id = result'.transaction_id => t \in db'.transaction

NonMemberRejected ==
    ByNonMember => result'.status = 403 /\ db'.transaction = db.transaction

\* C26 as stated: every create, list, update or delete under
\* /goals/{goal_id}/transactions by a user with no goal_member row for
\* goal_id is rejected with 403 and leaves all transactions unchanged; an
\* update or delete of a transaction id whose goal_id differs from the
\* path's goal_id is rejected with 404 and leaves that transaction
\* unchanged.
TransactionAccess ==
    [][/\ NonMemberRejected
       /\ OfOtherGoal => result'.status = 404 /\ TransactionKept]_vars

\* C26, amended: the same, the 404 being the answer to a member of the
\* goal of the path.
TransactionAccessOfMembers ==
    [][/\ NonMemberRejected
       /\ (OfOtherGoal /\ ~ByNonMember) =>
              result'.status = 404 /\ TransactionKept]_vars

\* The owner of a goal was answered 404 for the update, under that goal, of
\* a transaction of the other goal.
TransactionAccessOfMembersWitness ==
    /\ result.op = "update_transaction"
    /\ result.status = 404
    /\ \E m \in db.goal_member :
          m.goal_id = result.goal_id /\ m.user_id = result.user_id
    /\ \E t \in db.transaction :
          t.id = result.transaction_id /\ t.goal_id # result.goal_id

(***************************************************************************)
(* fund_categories.py and fund_snapshots.py: the requests on the fund data *)
(* of a user.  A payload of an update is a record of its values with the   *)
(* names of the fields the request set (exclude_unset).  foreign_keys      *)
(* tells whether the connection enforces the foreign keys of the tables:   *)
(* SQLite, the database of the default URL, does so only when asked to.    *)
(***************************************************************************)
\* A select by the id alone, whoever the row is of.
get_category_by_id(category_id, user_id, database) ==
    {c \in database.fund_category : c.id = category_id}

\* _get_category_for_user: the rows the select finds (none: 404).
_get_category_for_user(category_id, user_id, database) ==
    {c \in database.fund_category :
        c.id = category_id /\ c.user_id = user_id}

FundCategoryRead(category) == category

list_fund_categories(database, token) ==
    LET current == get_current_user(database, token)
    IN IF current.status # 200 THEN Response(database, current.status, {})
       ELSE Response(database, 200,
                     {FundCategoryRead(c) :
                         c \in {d \in database.fund_category :
                                   d.user_id = current.user.id}})

\* models.FundCategory(..., is_liquid=...): the class has no such
\* attribute and its constructor raises TypeError.
create_fund_category(database, token, payload) ==
    LET current == get_current_user(database, token)
    IN IF current.status # 200 THEN Response(database, current.status, <<>>)
       ELSE Response(database, 500, "TypeError")

update_fund_category(database, token, category_id, update_data) ==
    LET current == get_current_user(database, token)
        committed ==
            [database EXCEPT !.fund_category =
                {IF c.id = category_id
                 THEN [c EXCEPT !.name = IF "name" \in update_data.fields
                                         THEN update_data.name ELSE @]
                 ELSE c : c \in @}]
    IN IF current.status # 200 THEN Response(database, current.status, <<>>)
       ELSE IF _get_category_for_user(category_id, current.user.id,
                                      database) = {}
       THEN Response(database, 404, "Category not found")
       ELSE IF "is_liquid" \in update_data.fields
       THEN Response(database, 500, "CompileError")
       ELSE Response(committed, 200,
                     FundCategoryRead(
                        The(_get_category_for_user(category_id,
                                                   current.user.id,
                                                   committed))))

delete_fund_category(database, token, category_id, foreign_keys) ==
    LET current == get_current_user(database, token)
    IN IF current.status # 200 THEN Response(database, current.status, <<>>)
       ELSE IF _get_category_for_user(category_id, current.user.id,
                                      database) = {}
       THEN Response(database, 404, "Category not found")
       ELSE IF /\ foreign_keys
               /\ \E snapshot \in database.fund_snapshot :
                     snapshot.category_id = NotNull(category_id)
       THEN Response(database, 500, "IntegrityError")
       ELSE Response([database EXCEPT !.fund_category =
                         {c \in @ : ~(c.id = category_id
                                      /\ c.user_id = current.user.id)}],
                     204, <<>>)

\* _ensure_category_for_user: TRUE when the 404 is not raised.
_ensure_category_for_user(category_id, user_id, database) ==
    \E c \in database.fund_category :
        c.id = category_id /\ c.user_id = user_id

\* A select by the id alone, whoever the row is of.
get_snapshot_by_id(snapshot_id, user_id, database) ==
    {snapshot \in database.fund_snapshot : snapshot.id = snapshot_id}

\* _get_snapshot_for_user: the rows the select finds (none: 404).
_get_snapshot_for_user(snapshot_id, user_id, database) ==
    {snapshot \in database.fund_snapshot :
        snapshot.id = snapshot_id /\ snapshot.user_id = user_id}

FundSnapshotRead(snapshot) == snapshot

list_fund_snapshots(database, token) ==
    LET current == get_current_user(database, token)
    IN IF current.status # 200 THEN Response(database, current.status, {})
       ELSE Response(database, 200,
                     {FundSnapshotRead(snapshot) :
                         snapshot \in {t \in database.fund_snapshot :
                                          t.user_id = current.user.id}})

create_fund_snapshot(database, token, payload) ==
    LET current == get_current_user(database, token)
        snapshot == [id |-> NextId(database.fund_snapshot),
                     user_id |-> current.user.id,
                     category_id |-> payload.category_id,
                     reference_date |-> payload.reference_date,
                     amount |-> payload.amount]
    IN IF current.status # 200 THEN Response(database, current.status, <<>>)
       ELSE IF /\ ~payload.category_id.null
               /\ ~_ensure_category_for_user(payload.category_id.id,
                                             current.user.id, database)
       THEN Response(database, 404, "Category not found")
       ELSE Response([database EXCEPT !.fund_snapshot = @ \cup {snapshot}],
                     201, FundSnapshotRead(snapshot))

update_fund_snapshot(database, token, snapshot_id, update_data) ==
    LET current == get_current_user(database, token)
        committed ==
            [database EXCEPT !.fund_snapshot =
                {IF t.id = snapshot_id
                 THEN [t EXCEPT
                          !.category_id =
                              IF "category_id" \in update_data.fields
                              THEN update_data.category_id ELSE @,
                          !.amount =
                              IF "amount" \in update_data.fields
                              THEN update_data.amount ELSE @]
                 ELSE t : t \in @}]
    IN IF current.status # 200 THEN Response(database, current.status, <<>>)
       ELSE IF _get_snapshot_for_user(snapshot_id, current.user.id,
                                      database) = {}
       THEN Response(database, 404, "Snapshot not found")
       ELSE IF /\ "category_id" \in update_data.fields
               /\ ~update_data.category_id.null
               /\ ~_ensure_category_for_user(update_data.category_id.id,
                                             current.user.id, database)
       THEN Response(database, 404, "Category not found")
       ELSE Response(committed, 200,
                     FundSnapshotRead(
                        The(_get_snapshot_for_user(snapshot_id,
                                                   current.user.id,
                                                   committed))))

delete_fund_snapshot(database, token, snapshot_id) ==
    LET current == get_current_user(database, token)
    IN IF current.status # 200 THEN Response(database, current.status, <<>>)
       ELSE IF _get_snapshot_for_user(snapshot_id, current.user.id,
                                      database) = {}
       THEN Response(database, 404, "Snapshot not found")
       ELSE Response([database EXCEPT !.fund_snapshot =
                         {t \in @ : ~(t.id = snapshot_id
                                      /\ t.user_id = current.user.id)}],
                     204, <<>>)

(***************************************************************************)
(* The two users of a database with a category each send the requests on   *)
(* categories and snapshots in any order, and upload a workbook of one     *)
(* snapshot of the category "Apartment".  result keeps of the last request *)
(* its name, its user, the id of its path and its status.                  *)
(***************************************************************************)
MaxFundSnapshots == 2

FundWorkbookRows ==
    <<HeaderRow,
      <<<<"2", "0", "2", "5", "-", "0", "3", "-", "0", "1">>,
        <<"A", "p", "a", "r", "t", "m", "e", "n", "t">>,
        <<"1", "0", "0", "0", "0">>>>>>

\* The workbook the users upload.
FundWorkbook == build_workbook_from_rows(FundWorkbookRows)

\* The category the requests name: the one of the first user.
CategoryIds == {1}

FundCategoryUpdates ==
    {[fields |-> {}, name |-> <<>>],
     [fields |-> {"name"}, name |-> <<"B", "o", "n", "d", "s">>],
     [fields |-> {"is_liquid"}, name |-> <<>>]}

FundSnapshotCreates ==
    [category_id : {Null} \cup {NotNull(c) : c \in CategoryIds},
     reference_date : {[year |-> 2025, month |-> 3, day |-> 1]},
     amount : {<<"1", "0", "0", "0", "0">>}]

FundSnapshotUpdates ==
    [fields : {{"category_id"}},
     category_id : {Null} \cup {NotNull(c) : c \in CategoryIds},
     amount : {<<>>}]

FundResult(op, user_id, id, status) ==
    [op |-> op, user_id |-> user_id, id |-> id, status |-> status]

InitFunds ==
    /\ pc = "api"
    /\ db = ImportDb
    /\ seen \in [foreign_keys : BOOLEAN]
    /\ result = NoResponse
    /\ frames = <<>>
    /\ rows = <<>>
    /\ data = [zip |-> FALSE, members |-> <<>>]
    /\ index = 0
    /\ letters = None

ListFundCategories ==
    \E user_id \in UserIds :
        LET r == list_fund_categories(db, TokenOf(user_id))
        IN /\ db' = r.db
           /\ result' = FundResult("list_fund_categories", user_id, 0,
                                   r.status)
           /\ UNCHANGED <<pc, rows, data, index, letters, frames, seen>>

CreateFundCategory ==
    \E user_id \in UserIds :
        LET r == create_fund_category(db, TokenOf(user_id),
                                      [name |-> <<"B", "o", "n", "d", "s">>])
        IN /\ db' = r.db
           /\ result' = FundResult("create_fund_category", user_id, 0,
                                   r.status)
           /\ UNCHANGED <<pc, rows, data, index, letters, frames, seen>>

UpdateFundCategory ==
    \E user_id \in UserIds, category_id \in CategoryIds,
       update_data \in FundCategoryUpdates :
        LET r == update_fund_category(db, TokenOf(user_id), category_id,
                                      update_data)
        IN /\ db' = r.db
           /\ result' = FundResult("update_fund_category", user_id,
                                   category_id, r.status)
           /\ UNCHANGED <<pc, rows, data, index, letters, frames, seen>>

DeleteFundCategory ==
    \E user_id \in UserIds, category_id \in CategoryIds :
        LET r == delete_fund_category(db, TokenOf(user_id), category_id,
                                      seen.foreign_keys)
        IN /\ db' = r.db
           /\ result' = FundResult("delete_fund_category", user_id,
                                   category_id, r.status)
           /\ UNCHANGED <<pc, rows, data, index, letters, frames, seen>>

ListFundSnapshots ==
    \E user_id \in UserIds :
        LET r == list_fund_snapshots(db, TokenOf(user_id))
        IN /\ db' = r.db
           /\ result' = FundResult("list_fund_snapshots", user_id, 0,
                                   r.status)
           /\ UNCHANGED <<pc, rows, data, index, letters, frames, seen>>

CreateFundSnapshot ==
    \E user_id \in UserIds, payload \in FundSnapshotCreates :
        LET r == create_fund_snapshot(db, TokenOf(user_id), payload)
        IN /\ NextId(db.fund_snapshot) <= MaxFundSnapshots
           /\ db' = r.db
           /\ result' = FundResult("create_fund_snapshot", user_id, 0,
                                   r.status)
           /\ UNCHANGED <<pc, rows, data, index, letters, frames, seen>>

UpdateFundSnapshot ==
    \E user_id \in UserIds, snapshot_id \in 1..MaxFundSnapshots,
       update_data \in FundSnapshotUpdates :
        LET r == update_fund_snapshot(db, TokenOf(user_id), snapshot_id,
                                      update_data)
        IN /\ db' = r.db
           /\ result' = FundResult("update_fund_snapshot", user_id,
                                   snapshot_id, r.status)
           /\ UNCHANGED <<pc, rows, data, index, letters, frames, seen>>

DeleteFundSnapshot ==
    \E user_id \in UserIds, snapshot_id \in 1..MaxFundSnapshots :
        LET r == delete_fund_snapshot(db, TokenOf(user_id), snapshot_id)
        IN /\ db' = r.db
           /\ result' = FundResult("delete_fund_snapshot", user_id,
                                   snapshot_id, r.status)
           /\ UNCHANGED <<pc, rows, data, index, letters, frames, seen>>

ImportOneSnapshot ==
    /\ NextId(db.fund_snapshot) <= MaxFundSnapshots
    /\ \E user_id \in UserIds :
        \E r \in {import_fund_snapshots(db, TokenOf(user_id), FundWorkbook)} :
           /\ db' = r.db
           /\ result' = FundResult("import_fund_snapshots", user_id, 0,
                                   r.status)
           /\ UNCHANGED <<pc, rows, data, index, letters, frames, seen>>

NextFunds ==
    \/ ListFundCategories
    \/ CreateFundCategory
    \/ UpdateFundCategory
    \/ DeleteFundCategory
    \/ ListFundSnapshots
    \/ CreateFundSnapshot
    \/ UpdateFundSnapshot
    \/ DeleteFundSnapshot
    \/ ImportOneSnapshot

SpecFunds == InitFunds /\ [][NextFunds]_vars

(***************************************************************************)
(* The fund data of a user is out of the reach of the other.               *)
(***************************************************************************)
\* What the lists answer to a user are rows of that user.
ListsAreOwn ==
    \A user_id \in UserIds :
        /\ list_fund_categories(db, TokenOf(user_id)).status = 200
        /\ \A c \in list_fund_categories(db, TokenOf(user_id)).body :
              c.user_id = user_id
        /\ list_fund_snapshots(db, TokenOf(user_id)).status = 200
        /\ \A snapshot \in list_fund_snapshots(db, TokenOf(user_id)).body :
              snapshot.user_id = user_id

\* An update or delete of the id of a category or snapshot of another user
\* is answered 404 and the row is left as it was.
OthersRejected ==
    /\ result'.op \in {"update_fund_category", "delete_fund_category"} =>
          \A c \in db.fund_category :
              (c.id = result'.id /\ c.user_id # result'.user_id) =>
                  result'.status = 404 /\ c \in db'.fund_category
    /\ result'.op \in {"update_fund_snapshot", "delete_fund_snapshot"} =>
          \A snapshot \in db.fund_snapshot :
              (snapshot.id = result'.id
               /\ snapshot.user_id # result'.user_id) =>
                  result'.status = 404 /\ snapshot \in db'.fund_snapshot

\* The snapshots a create or an import stores are of the caller.
CreatedAreOwn ==
    result'.op \in {"create_fund_snapshot", "import_fund_snapshots"} =>
        \A snapshot \in db'.fund_snapshot \ db.fund_snapshot :
            snapshot.user_id = result'.user_id

\* C27: after any sequence of requests of two users, a user's list of fund
\* categories and of fund snapshots holds only rows whose user_id is that
\* user; an update or delete addressed to a category or snapshot id owned by
\* the other user returns 404 and leaves that row unchanged; every snapshot
\* created by create_fund_snapshot or import_fund_snapshots has the user_id
\* of the caller.
FundIsolation ==
    []ListsAreOwn /\ [][OthersRejected /\ CreatedAreOwn]_vars

\* A user was answered 404 for the update of a snapshot of the other, the
\* table holding snapshots of both.
FundIsolationWitness ==
    /\ result.op = "update_fund_snapshot"
    /\ result.status = 404
    /\ \E snapshot \in db.fund_snapshot :
          snapshot.id = result.id /\ snapshot.user_id # result.user_id
    /\ \E snapshot \in db.fund_snapshot : snapshot.user_id = result.user_id

(***************************************************************************)
(* The category of a snapshot.                                             *)
(***************************************************************************)
\* The category_id of each snapshot is null or the id of a category of the
\* user of the snapshot.
CategoryOfOwner ==
    \A snapshot \in db.fund_snapshot :
        \/ snapshot.category_id.null
        \/ \E c \in db.fund_category :
              /\ c.id = snapshot.category_id.id
              /\ c.user_id = snapshot.user_id

\* A create, and an update of a snapshot of the caller, with the id of a
\* category that is not the caller's is answered 404 and changes nothing.
ForeignCategoryRejected ==
    \A user_id \in UserIds, category_id \in CategoryIds :
        (~\E c \in db.fund_category :
              c.id = category_id /\ c.user_id = user_id) =>
            /\ \A payload \in FundSnapshotCreates :
                  payload.category_id = NotNull(category_id) =>
                      create_fund_snapshot(db, TokenOf(user_id), payload)
                          = Response(db, 404, "Category not found")
            /\ \A snapshot \in db.fund_snapshot,
                  update_data \in FundSnapshotUpdates :
                  (/\ snapshot.user_id = user_id
                   /\ update_data.category_id = NotNull(category_id)) =>
                      update_fund_snapshot(db, TokenOf(user_id), snapshot.id,
                                           update_data)
                          = Response(db, 404, "Category not found")

_get_goal_for_user(goal_id, user_id, database, require_owner) ==
    LET membership == {m \in database.goal_member :
                          m.goal_id = goal_id /\ m.user_id = user_id}
    IN IF ~\E g \in database.goal : g.id = goal_id THEN 404
       ELSE IF membership = {} THEN 403
       ELSE IF require_owner /\ The(membership).role # "owner" THEN 403
       ELSE 200

\* delete(Goal).where(Goal.id == goal_id) and the commit.
delete_goal(database, token, goal_id, foreign_keys) ==
    LET current == get_current_user(database, token)
        allowed == _get_goal_for_user(goal_id, current.user.id, database,
                                      TRUE)
    IN IF current.status # 200 THEN Response(database, current.status, <<>>)
       ELSE IF allowed # 200 THEN Response(database, allowed, <<>>)
       ELSE IF /\ foreign_keys
               /\ \E row \in database.goal_member \cup database.transaction :
                     row.goal_id = goal_id
       THEN Response(database, 500, "IntegrityError")
       ELSE Response([database EXCEPT !.goal = {g \in @ : g.id # goal_id}],
                     204, <<>>)

InitReferences ==
    /\ pc = "api"
    /\ db = TwoUsersDb
    /\ seen \in [goals : {{}}, live : {{}}, foreign_keys : BOOLEAN]
    /\ result = NoResponse
    /\ frames = <<>>
    /\ rows = <<>>
    /\ data = [zip |-> FALSE, members |-> <<>>]
    /\ index = 0
    /\ letters = None

DeleteGoal ==
    \E user_id \in UserIds, goal_id \in 1..MaxGoals :
        LET r == delete_goal(db, TokenOf(user_id), goal_id,
                             seen.foreign_keys)
        IN /\ db' = r.db
           /\ result' = [op |-> "delete_goal", user_id |-> user_id,
                         goal_id |-> goal_id, transaction_id |-> 0,
                         status |-> r.status]
           /\ UNCHANGED <<pc, rows, data, index, letters, frames, seen>>

NextReferences ==
    \/ CreateGoal
    \/ CreateTransaction
    \/ DeleteTransaction
    \/ DeleteGoal

SpecReferences == InitReferences /\ [][NextReferences]_vars

\* C28: in every state reachable through the API each goal_member row and
\* each transaction row has a goal_id that refers to an existing goal; so
\* after a delete_goal of the owner that succeeded no goal_member or
\* transaction row with the id of the deleted goal remains.
GoalReferencesValid ==
    \A row \in db.goal_member \cup db.transaction :
        \E g \in db.goal : g.id = row.goal_id

(***************************************************************************)
(* auth.py: signup requests that run at the same time.  A request gives   *)
(* way to the others where it awaits: at the select and at the commit,     *)
(* each on a session of its own.  The insert of the commit is checked by   *)
(* the database against the unique index of user.email.                    *)
(***************************************************************************)
\* existing_user = (await session.execute(query)).scalar_one_or_none() and
\* the raise of the 400.
signup_select(frame, database) ==
    IF \E u \in database.user : u.email = EmailStr(frame.payload.email)
    THEN [frame EXCEPT !.pc = "done", !.status = 400]
    ELSE [frame EXCEPT !.pc = "commit"]

\* unique=True of User.email: TRUE when the insert is refused.
email_unique_violated(database, user) ==
    \E u \in database.user : u.email = user.email

\* session.add(user) and await session.commit(): the table after it and
\* the status of the answer.
signup_commit(frame, database) ==
    LET user == [id |-> NextId(database.user),
                 email |-> EmailStr(frame.payload.email),
                 name |-> frame.payload.name,
                 password_hash |->
                     get_password_hash(frame.payload.password, "salt1")]
    IN IF email_unique_violated(database, user)
       THEN [db |-> database, status |-> 500]
       ELSE [db |-> [database EXCEPT !.user = @ \cup {user}],
             status |-> 201]

SignupEmails ==
    {Address("a", <<"x", ".", "c">>), Address("a", <<"X", ".", "c">>),
     Address("b", <<"x", ".", "c">>)}

SignupFrames ==
    [op : {"signup"}, pc : {"select"}, status : {0},
     payload : [email : SignupEmails, name : {"name"},
                password : {UserPassword}]]

InitSignup ==
    /\ pc = "api"
    /\ db \in {EmptyDb, SignedUp(EmptyDb, UserEmails[1])}
    /\ frames \in [1..MaxCalls -> SignupFrames]
    /\ seen = <<>>
    /\ result = NoResponse
    /\ rows = <<>>
    /\ data = [zip |-> FALSE, members |-> <<>>]
    /\ index = 0
    /\ letters = None

SignupSelect(c) ==
    /\ frames[c].pc = "select"
    /\ frames' = [frames EXCEPT ![c] = signup_select(@, db)]
    /\ UNCHANGED <<pc, rows, data, result, index, letters, db, seen>>

SignupCommit(c) ==
    /\ frames[c].pc = "commit"
    /\ LET r == signup_commit(frames[c], db)
       IN /\ db' = r.db
          /\ frames' = [frames EXCEPT ![c] = [@ EXCEPT !.pc = "done",
                                                       !.status = r.status]]
    /\ UNCHANGED <<pc, rows, data, result, index, letters, seen>>

NextSignup == \E c \in DOMAIN frames : SignupSelect(c) \/ SignupCommit(c)

SpecSignup == InitSignup /\ [][NextSignup]_vars

\* No two user rows have the same email.
EmailUnique ==
    \A u, v \in db.user : u.email = v.email => u = v

\* A signup that ends while its email is registered leaves the users as
\* they are and is answered 400.
DuplicateRefused ==
    \A c \in DOMAIN frames :
        (/\ frames[c].pc # "done"
         /\ frames'[c].pc = "done"
         /\ \E u \in db.user : u.email = EmailStr(frames[c].payload.email)) =>
            /\ db'.user = db.user
            /\ frames'[c].status = 400

\* C30: in every reachable state, under any interleaving of concurrent
\* signup requests, no two user rows have the same email; a signup whose
\* email is already registered creates no user, modifies no existing user
\* and is answered with the 400 "Email already registered".
EmailUniqueness == []EmailUnique /\ [][DuplicateRefused]_vars

====
